---- MODULE Spec2Model ----
(***************************************************************************)
(* x402 workflow observer: the event-sourcing pipeline of the backend.     *)
(*                                                                         *)
(*   chain (RPC)  --pollEvents-->  ChainEvent  --reduceWorkflow-->         *)
(*   WorkflowState, with replayAllEvents rebuilding WorkflowState at       *)
(*   every process start and system_state.lastProcessedBlock as the        *)
(*   poller's checkpoint.                                                  *)
(*                                                                         *)
(* The database (chainEvent, workflowState, lastProcessedBlock) outlives   *)
(* the process; the process state (procPc, the replay locals, the timer    *)
(* and the poll cycles in flight) is lost at a restart.  A JavaScript      *)
(* async function runs atomically between two awaits, so every action      *)
(* below is the completion of one awaited call together with the           *)
(* synchronous code that follows it up to the next await.                  *)
(***************************************************************************)
EXTENDS Integers, Sequences, FiniteSets, TLC

VARIABLES
    head,               \* chain: number of the latest block
    chainEvent,         \* table ChainEvent, rows in insertion order
    workflowState,      \* table WorkflowState: workflowId -> row or Nil
    lastProcessedBlock, \* system_state.lastProcessedBlock, NULLINT: no row
    procPc,             \* position of bootstrap() in the running process
    replay,             \* locals of the replayAllEvents call in progress
    isListening,        \* listener.js: isListening
    pollingInterval,    \* listener.js: pollingInterval (TRUE: a timer is set)
    server,             \* server.js: app.listen has been called
    shutdown,           \* server.js: position of shutdown(signal)
    contract,           \* X402HelloWorld: storage, emitted logs, calls
    stats,              \* routes: the GET /stats request in progress, or Nil
    listener,           \* the interval timers that exist, and (history) the
                        \* listener function called last and how it returned
    cycles,             \* the pollEvents calls in flight, one record per slot
    failures,           \* number of RPC calls that have failed so far
    restarts,           \* number of process restarts so far
    lastReplay          \* history: ChainEvent and WorkflowState as the last
                        \* completed replayAllEvents left them, or Nil

vars == <<head, chainEvent, workflowState, lastProcessedBlock, procPc, replay,
          isListening, pollingInterval, server, shutdown, contract, stats, listener,
          cycles, failures, restarts, lastReplay>>

dbVars == <<chainEvent, workflowState, lastProcessedBlock>>

\* JavaScript null / SQL NULL: of a string, of a number (chain numbers are
\* never negative), of an object or row
NULL == "null"
NULLINT == 0 - 1
Nil == [nil |-> TRUE]

----------------------------------------------------------------------------
(* Bounds of the model *)

\* RPC calls that fail in one behaviour
MaxFailures == 1
\* process restarts in one behaviour
MaxRestarts == 2
\* blocks the chain grows beyond the confirmation depth
MaxGrowth == 2

(* Program constants *)

\* CONFIRMATION_BLOCKS, the value of config.confirmationBlocks
ConfirmationBlocks == 3
\* listener.js: const MAX_BLOCK_RANGE = 2000
MAX_BLOCK_RANGE == 2000
\* config.blockStart = parseInt(process.env.BLOCK_START || '0'): the block to
\* start listening from; this deployment sets it to the second block
BlockStart == 2

MaxHead == ConfirmationBlocks + MaxGrowth

----------------------------------------------------------------------------
(* The chain: the logs the contract has emitted.  A log is visible to      *)
(* getLogs once head has reached its block.                                *)

Workflows == {"w1", "w2"}

EventTypeNames == <<"WORKFLOW_STARTED", "DECISION_RECORDED", "PAYMENT_EXECUTED",
                    "WORKFLOW_COMPLETED", "WORKFLOW_FAILED">>

Log(w, t, args, b, ti, li, tx) ==
    [workflowId |-> w, eventType |-> t, args |-> args, blockNumber |-> b,
     transactionIndex |-> ti, index |-> li, transactionHash |-> tx]

\* the decoded arguments of a log after the workflow id; a field an event
\* does not carry keeps its default
NoArgs == [initiator |-> NULL, approved |-> FALSE, reason |-> NULL]

\* Block 1 holds two transactions: t1 starts w1, and t2 rejects it
\* (recordDecision(w1, false, "fraud") emits DecisionRecorded and then
\* WorkflowFailed).  The later blocks hold no log of the contract.
ChainLogs ==
    { Log("w1", "WORKFLOW_STARTED", [NoArgs EXCEPT !.initiator = "0xA"], 1, 0, 0, "t1"),
      Log("w1", "DECISION_RECORDED",
          [NoArgs EXCEPT !.approved = FALSE, !.reason = "fraud"], 1, 1, 1, "t2"),
      Log("w1", "WORKFLOW_FAILED", [NoArgs EXCEPT !.reason = "fraud"], 1, 1, 2, "t2") }

\* block.timestamp of block b
BlockTimestamp(b) == 1000 + 10 * b

----------------------------------------------------------------------------
(* Canonical order (blockNumber, transactionIndex, logIndex) *)

CanonLess(a, b) ==
    \/ a.blockNumber < b.blockNumber
    \/ /\ a.blockNumber = b.blockNumber
       /\ a.transactionIndex < b.transactionIndex
    \/ /\ a.blockNumber = b.blockNumber
       /\ a.transactionIndex = b.transactionIndex
       /\ a.logIndex < b.logIndex

SeqToSet(s) == { s[i] : i \in 1..Len(s) }

\* ORDER BY blockNumber ASC, transactionIndex ASC, logIndex ASC over a set of
\* rows.  Rows with equal keys come back in an order the database is free to
\* choose; no reachable table holds two such rows.
RECURSIVE OrderByCanonical(_)
OrderByCanonical(rows) ==
    IF rows = {} THEN <<>>
    ELSE LET first == CHOOSE r \in rows : \A o \in rows : ~CanonLess(o, r)
         IN  <<first>> \o OrderByCanonical(rows \ {first})

----------------------------------------------------------------------------
(* X402HelloWorld.sol: the storage of the contract *)

\* workflows startWorkflow creates at most
MaxWorkflows == 2

\* msg.sender of startWorkflow
Senders == {"0xA", "0xB"}

\* block.timestamp of the block a call is mined in; the calls of one block
\* share it, and then only the counter tells their ids apart
ContractTimestamps == {1000}

\* faulty variant: the counter is left out of the hash
KeccakNoCounter(sender, counter, timestamp) == <<sender, 1, timestamp>>

\* keccak256(abi.encodePacked(msg.sender, workflowCounter, block.timestamp)):
\* the packed encoding of an address and two uint256 is one-to-one, and the
\* hash is taken to be free of collisions, so the id stands for its preimage
Keccak(sender, counter, timestamp) == <<sender, counter, timestamp>>

ContractIds ==
    { Keccak(a, n, t) : a \in Senders, n \in 1..MaxWorkflows,
                        t \in ContractTimestamps }

\* the value of workflows[id] for an id that was never written
NoWorkflow == [state |-> "None", initiator |-> NULL, amount |-> 0]

\* no call has been made
NoCall == [fn |-> "none", workflowId |-> <<>>, ok |-> TRUE]

\* the contract after deployment.  logs are the events emitted so far, stack
\* the executePayment calls whose transfer has not returned, last the call
\* made last and whether it succeeded.
Deployed ==
    [workflowCounter |-> 0,
     workflows |-> [id \in ContractIds |-> NoWorkflow],
     logs |-> <<>>,
     stack |-> <<>>,
     last |-> NoCall]

----------------------------------------------------------------------------
(* reducer.js *)

NewWorkflow(event) ==
    [workflowId |-> event.workflowId, status |-> "RUNNING", initiator |-> NULL,
     startedAt |-> event.blockTimestamp, completedAt |-> NULLINT,
     failureReason |-> NULL, lastEventBlock |-> event.blockNumber,
     lastEventLogIndex |-> event.logIndex]

\* faulty variant: WORKFLOW_COMPLETED does not set completedAt
ReduceWorkflowNoStamp(state, event) ==
    LET s == IF state = Nil THEN NewWorkflow(event) ELSE state
        p == [s EXCEPT !.lastEventBlock = event.blockNumber,
                       !.lastEventLogIndex = event.logIndex]
    IN  CASE event.eventType = "WORKFLOW_STARTED" ->
                [p EXCEPT !.status = "RUNNING",
                          !.initiator = event.payload.initiator,
                          !.startedAt = event.blockTimestamp]
          [] event.eventType = "DECISION_RECORDED" ->
                IF event.payload.approved = TRUE
                THEN [p EXCEPT !.status = "RUNNING"]
                ELSE [p EXCEPT !.status = "REJECTED",
                               !.completedAt = event.blockTimestamp,
                               !.failureReason = event.payload.reason]
          [] event.eventType = "PAYMENT_EXECUTED" ->
                [p EXCEPT !.status = "RUNNING"]
          [] event.eventType = "WORKFLOW_COMPLETED" ->
                [p EXCEPT !.status = "COMPLETED"]
          [] event.eventType = "WORKFLOW_FAILED" ->
                [p EXCEPT !.status = "FAILED",
                          !.completedAt = event.blockTimestamp,
                          !.failureReason = event.payload.reason]
          [] OTHER -> s

\* faulty variant: DECISION_RECORDED rejects whatever payload.approved says
ReduceWorkflowAnyDecision(state, event) ==
    LET s == IF state = Nil THEN NewWorkflow(event) ELSE state
        p == [s EXCEPT !.lastEventBlock = event.blockNumber,
                       !.lastEventLogIndex = event.logIndex]
    IN  CASE event.eventType = "WORKFLOW_STARTED" ->
                [p EXCEPT !.status = "RUNNING",
                          !.initiator = event.payload.initiator,
                          !.startedAt = event.blockTimestamp]
          [] event.eventType = "DECISION_RECORDED" ->
                [p EXCEPT !.status = "REJECTED",
                          !.completedAt = event.blockTimestamp,
                          !.failureReason = event.payload.reason]
          [] event.eventType = "PAYMENT_EXECUTED" ->
                [p EXCEPT !.status = "RUNNING"]
          [] event.eventType = "WORKFLOW_COMPLETED" ->
                [p EXCEPT !.status = "COMPLETED",
                          !.completedAt = event.blockTimestamp]
          [] event.eventType = "WORKFLOW_FAILED" ->
                [p EXCEPT !.status = "FAILED",
                          !.completedAt = event.blockTimestamp,
                          !.failureReason = event.payload.reason]
          [] OTHER -> s

\* faulty variant: PAYMENT_EXECUTED leaves the position of the last event as
\* it was
ReduceWorkflowStalePosition(state, event) ==
    LET s == IF state = Nil THEN NewWorkflow(event) ELSE state
        p == [s EXCEPT !.lastEventBlock = event.blockNumber,
                       !.lastEventLogIndex = event.logIndex]
    IN  CASE event.eventType = "WORKFLOW_STARTED" ->
                [p EXCEPT !.status = "RUNNING",
                          !.initiator = event.payload.initiator,
                          !.startedAt = event.blockTimestamp]
          [] event.eventType = "DECISION_RECORDED" ->
                IF event.payload.approved = TRUE
                THEN [p EXCEPT !.status = "RUNNING"]
                ELSE [p EXCEPT !.status = "REJECTED",
                               !.completedAt = event.blockTimestamp,
                               !.failureReason = event.payload.reason]
          [] event.eventType = "PAYMENT_EXECUTED" ->
                [s EXCEPT !.status = "RUNNING"]
          [] event.eventType = "WORKFLOW_COMPLETED" ->
                [p EXCEPT !.status = "COMPLETED",
                          !.completedAt = event.blockTimestamp]
          [] event.eventType = "WORKFLOW_FAILED" ->
                [p EXCEPT !.status = "FAILED",
                          !.completedAt = event.blockTimestamp,
                          !.failureReason = event.payload.reason]
          [] OTHER -> s

\* reduceWorkflow(state, event); state is Nil for a new workflow
ReduceWorkflow(state, event) ==
    LET s == IF state = Nil THEN NewWorkflow(event) ELSE state
        p == [s EXCEPT !.lastEventBlock = event.blockNumber,
                       !.lastEventLogIndex = event.logIndex]
    IN  CASE event.eventType = "WORKFLOW_STARTED" ->
                [p EXCEPT !.status = "RUNNING",
                          !.initiator = event.payload.initiator,
                          !.startedAt = event.blockTimestamp]
          [] event.eventType = "DECISION_RECORDED" ->
                IF event.payload.approved = TRUE
                THEN [p EXCEPT !.status = "RUNNING"]
                ELSE [p EXCEPT !.status = "REJECTED",
                               !.completedAt = event.blockTimestamp,
                               !.failureReason = event.payload.reason]
          [] event.eventType = "PAYMENT_EXECUTED" ->
                [p EXCEPT !.status = "RUNNING"]
          [] event.eventType = "WORKFLOW_COMPLETED" ->
                [p EXCEPT !.status = "COMPLETED",
                          !.completedAt = event.blockTimestamp]
          [] event.eventType = "WORKFLOW_FAILED" ->
                [p EXCEPT !.status = "FAILED",
                          !.completedAt = event.blockTimestamp,
                          !.failureReason = event.payload.reason]
          [] OTHER -> s

RECURSIVE FoldWorkflow(_, _)
FoldWorkflow(state, events) ==
    IF events = <<>> THEN state
    ELSE FoldWorkflow(ReduceWorkflow(state, Head(events)), Tail(events))

\* faulty variant: startedAt is taken from the clock at the time of the rebuild (the
\* chain head stands for the clock) instead of the block timestamp
ReduceWorkflowFromEventsNow(events) ==
    IF events = <<>> THEN Nil
    ELSE [FoldWorkflow(Nil, events) EXCEPT !.startedAt = BlockTimestamp(head)]

\* reduceWorkflowFromEvents(events)
ReduceWorkflowFromEvents(events) ==
    IF events = <<>> THEN Nil ELSE FoldWorkflow(Nil, events)

\* faulty variant: two events of equal position pass
ValidateAllowsEqual(events) ==
    \A i \in 2..Len(events) :
        LET prev == events[i - 1]
            curr == events[i]
        IN  /\ ~(curr.blockNumber < prev.blockNumber)
            /\ ~(/\ curr.blockNumber = prev.blockNumber
                 /\ curr.transactionIndex < prev.transactionIndex)
            /\ ~(/\ curr.blockNumber = prev.blockNumber
                 /\ curr.transactionIndex = prev.transactionIndex
                 /\ curr.logIndex < prev.logIndex)

\* faulty variant: no validation
AcceptAnyOrdering(events) == TRUE

\* validateEventOrdering(events)
ValidateEventOrdering(events) ==
    \A i \in 2..Len(events) :
        LET prev == events[i - 1]
            curr == events[i]
        IN  /\ ~(curr.blockNumber < prev.blockNumber)
            /\ ~(/\ curr.blockNumber = prev.blockNumber
                 /\ curr.transactionIndex < prev.transactionIndex)
            /\ ~(/\ curr.blockNumber = prev.blockNumber
                 /\ curr.transactionIndex = prev.transactionIndex
                 /\ curr.logIndex <= prev.logIndex)

----------------------------------------------------------------------------
(* The database: Prisma calls *)

SameKey(a, b) == a.txHash = b.txHash /\ a.logIndex = b.logIndex

KeyStored(table, eventData) ==
    \E i \in 1..Len(table) : SameKey(table[i], eventData)

\* faulty variant: update: eventData, the stored row takes the new values
ChainEventUpsertOverwrite(table, eventData) ==
    IF KeyStored(table, eventData)
    THEN [i \in 1..Len(table) |->
             IF SameKey(table[i], eventData) THEN eventData ELSE table[i]]
    ELSE Append(table, eventData)

\* faulty variant: a create without the unique index on (txHash, logIndex)
ChainEventCreate(table, eventData) == Append(table, eventData)

\* faulty variant: delete the row of the key, then create
ChainEventReplace(table, eventData) ==
    Append(SelectSeq(table, LAMBDA r : ~SameKey(r, eventData)), eventData)

\* prisma.chainEvent.upsert({ where: { txHash_logIndex }, update: {}, create })
ChainEventUpsert(table, eventData) ==
    IF KeyStored(table, eventData)
    THEN table
    ELSE Append(table, eventData)

\* "initiator" VARCHAR(42) NOT NULL: a row without initiator is refused
WorkflowRowAccepted(state) == state.initiator # NULL

\* prisma.workflowState.upsert({ where: { workflowId }, update, create })
WorkflowStateUpsert(table, workflowId, state) ==
    [table EXCEPT ![workflowId] = [state EXCEPT !.workflowId = workflowId]]

\* prisma.workflowState.deleteMany({})
WorkflowStateDeleteMany(table) == [w \in DOMAIN table |-> Nil]

----------------------------------------------------------------------------
(* The chain client (ethers provider) *)

RECURSIVE OrderLogs(_)
OrderLogs(logs) ==
    IF logs = {} THEN <<>>
    ELSE LET first == CHOOSE l \in logs : \A o \in logs :
                         \/ l.blockNumber < o.blockNumber
                         \/ /\ l.blockNumber = o.blockNumber
                            /\ l.index <= o.index
         IN  <<first>> \o OrderLogs(logs \ {first})

\* provider.getLogs({ address, topics, fromBlock, toBlock }) at chain head h:
\* the logs of one event signature in the block range, in chain order
GetLogs(h, eventType, fromBlock, toBlock) ==
    OrderLogs({ l \in ChainLogs : /\ l.eventType = eventType
                                  /\ l.blockNumber <= h
                                  /\ fromBlock <= l.blockNumber
                                  /\ l.blockNumber <= toBlock })

----------------------------------------------------------------------------
(* listener.js: pollEvents and processAndPersistEvent *)

\* The pollEvents calls the model follows: nothing in listener.js keeps the
\* timer from calling pollEvents while an earlier call is still awaiting, and
\* two calls in flight are what the model explores.
Slots == {1, 2}

IdleCycle ==
    [pc |-> "idle", latestBlock |-> 0, lastProcessedBlock |-> 0, toBlock |-> 0,
     chunks |-> <<>>, ci |-> 0, ti |-> 0, logs |-> <<>>, totalLogs |-> 0,
     receiptIndex |-> NULLINT, eventData |-> Nil, workflowState |-> Nil,
     rpcFailed |-> FALSE]

\* the cycle as pollEvents() leaves it at its first await
StartedCycle == [IdleCycle EXCEPT !.pc = "getBlockNumber"]

Min(a, b) == IF a < b THEN a ELSE b

\* faulty variant: end = Math.min(start + MAX_BLOCK_RANGE, toBlock)
RECURSIVE ChunksInclusive(_, _)
ChunksInclusive(start, toBlock) ==
    IF start > toBlock THEN <<>>
    ELSE <<[from |-> start, to |-> Min(start + MAX_BLOCK_RANGE, toBlock)]>>
         \o ChunksInclusive(start + MAX_BLOCK_RANGE, toBlock)

\* for (start = fromBlock; start <= toBlock; start += MAX_BLOCK_RANGE)
RECURSIVE Chunks(_, _)
Chunks(start, toBlock) ==
    IF start > toBlock THEN <<>>
    ELSE <<[from |-> start, to |-> Min(start + MAX_BLOCK_RANGE - 1, toBlock)]>>
         \o Chunks(start + MAX_BLOCK_RANGE, toBlock)

\* faulty variant: the range runs up to the chain head
UnsafeToBlock(latestBlock) == latestBlock

\* toBlock = latestBlock - config.confirmationBlocks
SafeToBlock(latestBlock) == latestBlock - ConfirmationBlocks

\* the switch on eventType that builds the payload
Payload(eventType, args) ==
    CASE eventType = "WORKFLOW_STARTED" -> [initiator |-> args.initiator]
      [] eventType = "DECISION_RECORDED" ->
            [approved |-> args.approved, reason |-> args.reason]
      [] eventType = "PAYMENT_EXECUTED" -> [to |-> NULL, amount |-> NULL]
      [] eventType = "WORKFLOW_FAILED" -> [reason |-> args.reason]
      [] OTHER -> <<>>

EventData(log, eventType, receiptIndex, timestamp) ==
    [workflowId |-> log.workflowId, eventType |-> eventType,
     payload |-> Payload(eventType, log.args), blockNumber |-> log.blockNumber,
     transactionIndex |-> receiptIndex, logIndex |-> log.index,
     txHash |-> log.transactionHash, blockTimestamp |-> timestamp]

\* faulty variant: if (totalLogs > 0)
AfterLoopsOnlyLogs(cy) ==
    IF cy.totalLogs > 0
    THEN [cy EXCEPT !.pc = "updateSystemState"]
    ELSE IdleCycle

\* after the chunk loops: if (totalLogs > 0 || toBlock > lastProcessedBlock)
AfterLoops(cy) ==
    IF cy.totalLogs > 0 \/ cy.toBlock > cy.lastProcessedBlock
    THEN [cy EXCEPT !.pc = "updateSystemState"]
    ELSE IdleCycle

\* the next getLogs call of the two nested loops, or the end of the loops
NextQuery(cy) ==
    IF cy.ti < Len(EventTypeNames)
    THEN [cy EXCEPT !.pc = "getLogs", !.ti = @ + 1]
    ELSE IF cy.ci < Len(cy.chunks)
         THEN [cy EXCEPT !.pc = "getLogs", !.ci = @ + 1, !.ti = 1]
         ELSE AfterLoops(cy)

\* processAndPersistEvent has returned: totalLogs++, then the next log
NextLog(cy) ==
    LET d == [cy EXCEPT !.totalLogs = @ + 1, !.logs = Tail(@),
                        !.receiptIndex = NULLINT, !.eventData = Nil,
                        !.workflowState = Nil]
    IN  IF d.logs # <<>>
        THEN [d EXCEPT !.pc = "getTransactionReceipt"]
        ELSE NextQuery(d)

CanFail == failures < MaxFailures

\* await provider.getBlockNumber()
PollGetBlockNumber(c) ==
    /\ cycles[c].pc = "getBlockNumber"
    /\ \/ /\ cycles' = [cycles EXCEPT ![c].pc = "findSystemState",
                                      ![c].latestBlock = head]
          /\ UNCHANGED failures
       \/ /\ CanFail
          /\ failures' = failures + 1
          /\ cycles' = [cycles EXCEPT ![c] = IdleCycle]
    /\ UNCHANGED <<head, dbVars, procPc, replay, isListening, pollingInterval, server, shutdown, contract, stats, listener,
                   restarts, lastReplay>>

\* await prisma.systemState.findUnique, the range and its chunks
PollFindSystemState(c) ==
    /\ cycles[c].pc = "findSystemState"
    /\ LET last == IF lastProcessedBlock # NULLINT THEN lastProcessedBlock
                   ELSE BlockStart
           toBlock == SafeToBlock(cycles[c].latestBlock)
           fromBlock == last + 1
       IN  cycles' = [cycles EXCEPT ![c] =
              IF fromBlock > toBlock THEN IdleCycle
              ELSE [@ EXCEPT !.pc = "getLogs", !.lastProcessedBlock = last,
                             !.toBlock = toBlock,
                             !.chunks = Chunks(fromBlock, toBlock),
                             !.ci = 1, !.ti = 1]]
    /\ UNCHANGED <<head, dbVars, procPc, replay, isListening, pollingInterval, server, shutdown, contract, stats, listener,
                   failures, restarts, lastReplay>>

\* await provider.getLogs for chunk ci and event type ti
PollGetLogs(c) ==
    /\ cycles[c].pc = "getLogs"
    /\ \/ /\ LET cy == cycles[c]
                 logs == GetLogs(head, EventTypeNames[cy.ti],
                                 cy.chunks[cy.ci].from, cy.chunks[cy.ci].to)
             IN  cycles' = [cycles EXCEPT ![c] =
                    IF logs # <<>>
                    THEN [cy EXCEPT !.pc = "getTransactionReceipt", !.logs = logs]
                    ELSE NextQuery(cy)]
          /\ UNCHANGED failures
       \/ /\ CanFail
          /\ failures' = failures + 1
          /\ cycles' = [cycles EXCEPT ![c] = IdleCycle]
    /\ UNCHANGED <<head, dbVars, procPc, replay, isListening, pollingInterval, server, shutdown, contract, stats, listener,
                   restarts, lastReplay>>

\* processAndPersistEvent: await provider.getTransactionReceipt; a failure is
\* caught and logged inside processAndPersistEvent, which then returns
ProcessGetTransactionReceipt(c) ==
    /\ cycles[c].pc = "getTransactionReceipt"
    /\ \/ /\ cycles' = [cycles EXCEPT ![c].pc = "getBlock",
                  ![c].receiptIndex = Head(cycles[c].logs).transactionIndex]
          /\ UNCHANGED failures
       \/ /\ CanFail
          /\ failures' = failures + 1
          /\ cycles' = [cycles EXCEPT ![c] = NextLog([@ EXCEPT !.rpcFailed = TRUE])]
    /\ UNCHANGED <<head, dbVars, procPc, replay, isListening, pollingInterval, server, shutdown, contract, stats, listener,
                   restarts, lastReplay>>

\* processAndPersistEvent: await provider.getBlock, then eventData is built
ProcessGetBlock(c) ==
    /\ cycles[c].pc = "getBlock"
    /\ \/ /\ LET cy == cycles[c]
                 log == Head(cy.logs)
             IN  cycles' = [cycles EXCEPT ![c].pc = "chainEventUpsert",
                    ![c].eventData =
                        EventData(log, EventTypeNames[cy.ti], cy.receiptIndex,
                                  BlockTimestamp(log.blockNumber))]
          /\ UNCHANGED failures
       \/ /\ CanFail
          /\ failures' = failures + 1
          /\ cycles' = [cycles EXCEPT ![c] = NextLog([@ EXCEPT !.rpcFailed = TRUE])]
    /\ UNCHANGED <<head, dbVars, procPc, replay, isListening, pollingInterval, server, shutdown, contract, stats, listener,
                   restarts, lastReplay>>

\* processAndPersistEvent: await prisma.chainEvent.upsert
ProcessChainEventUpsert(c) ==
    /\ cycles[c].pc = "chainEventUpsert"
    /\ chainEvent' = ChainEventUpsert(chainEvent, cycles[c].eventData)
    /\ cycles' = [cycles EXCEPT ![c].pc = "workflowStateFindUnique"]
    /\ UNCHANGED <<head, workflowState, lastProcessedBlock, procPc, replay,
                   isListening, pollingInterval, server, shutdown, contract, stats, listener, failures, restarts, lastReplay>>

\* processAndPersistEvent: await prisma.workflowState.findUnique
ProcessWorkflowStateFindUnique(c) ==
    /\ cycles[c].pc = "workflowStateFindUnique"
    /\ cycles' = [cycles EXCEPT ![c].pc = "workflowStateUpsert",
                     ![c].workflowState = workflowState[cycles[c].eventData.workflowId]]
    /\ UNCHANGED <<head, dbVars, procPc, replay, isListening, pollingInterval, server, shutdown, contract, stats, listener,
                   failures, restarts, lastReplay>>

\* processAndPersistEvent: newState = reduceWorkflow(workflowState, eventData)
\* and await prisma.workflowState.upsert; a refused row is an error that is
\* caught and logged
ProcessWorkflowStateUpsert(c) ==
    /\ cycles[c].pc = "workflowStateUpsert"
    /\ LET cy == cycles[c]
           newState == ReduceWorkflow(cy.workflowState, cy.eventData)
       IN  workflowState' =
              IF WorkflowRowAccepted(newState)
              THEN WorkflowStateUpsert(workflowState, cy.eventData.workflowId, newState)
              ELSE workflowState
    /\ cycles' = [cycles EXCEPT ![c] = NextLog(@)]
    /\ UNCHANGED <<head, chainEvent, lastProcessedBlock, procPc, replay,
                   isListening, pollingInterval, server, shutdown, contract, stats, listener, failures, restarts, lastReplay>>

\* await prisma.systemState.update({ data: { lastProcessedBlock: toBlock } })
PollUpdateSystemState(c) ==
    /\ cycles[c].pc = "updateSystemState"
    /\ lastProcessedBlock' =
          IF lastProcessedBlock # NULLINT THEN cycles[c].toBlock ELSE NULLINT
    /\ cycles' = [cycles EXCEPT ![c] = IdleCycle]
    /\ UNCHANGED <<head, chainEvent, workflowState, procPc, replay, isListening,
                   pollingInterval, server, shutdown, contract, stats, listener, failures, restarts, lastReplay>>

\* the listener module as it is loaded: no timer, no function called yet
NotStarted == [timers |-> 0, called |-> "none", warned |-> FALSE]

\* startEventListener() has set the interval timer
Started == [timers |-> 1, called |-> "start", warned |-> FALSE]

\* the interval timer fires pollEvents; nothing looks at the cycles in flight
TimerFire(c) ==
    /\ pollingInterval
    /\ cycles[c].pc = "idle"
    /\ \A d \in Slots : d < c => cycles[d].pc # "idle"
    /\ cycles' = [cycles EXCEPT ![c] = StartedCycle]
    /\ UNCHANGED <<head, dbVars, procPc, replay, isListening, pollingInterval, server, shutdown, contract, stats, listener,
                   failures, restarts, lastReplay>>

----------------------------------------------------------------------------
(* replay.js: replayAllEvents *)

\* a value JavaScript treats as true in (options.fromBlock && ...)
Truthy(n) == n # NULLINT /\ n # 0

\* the where clause { ...(fromBlock && { blockNumber: { gte } }),
\*                    ...(toBlock && { blockNumber: { lte } }) }:
\* both spreads set the key blockNumber, and the later one replaces the earlier
ReplayWhere(options, row) ==
    IF Truthy(options.toBlock) THEN row.blockNumber <= options.toBlock
    ELSE IF Truthy(options.fromBlock) THEN row.blockNumber >= options.fromBlock
    ELSE TRUE

\* prisma.chainEvent.findMany({ where, orderBy })
ReplayFindEvents(table, options) ==
    OrderByCanonical({ r \in SeqToSet(table) : ReplayWhere(options, r) })

\* the keys of eventsByWorkflow, a Map, in insertion order
RECURSIVE GroupOrder(_, _)
GroupOrder(events, seen) ==
    IF events = <<>> THEN <<>>
    ELSE IF Head(events).workflowId \in seen THEN GroupOrder(Tail(events), seen)
         ELSE <<Head(events).workflowId>>
              \o GroupOrder(Tail(events), seen \cup {Head(events).workflowId})

\* eventsByWorkflow.get(workflowId)
EventsOf(events, w) == SelectSeq(events, LAMBDA e : e.workflowId = w)

\* server.js: replayAllEvents({ fromBlock: 0 })
BootstrapOptions == [fromBlock |-> 0, toBlock |-> NULLINT]

\* history of the completed replays: the tables as the last one left them and
\* the number (1 or 2) of replays in a row that found this ChainEvent content
ReplaySnapshot(events, rows) ==
    [events |-> events, rows |-> rows,
     runs |-> IF lastReplay # Nil /\ lastReplay.events = events THEN 2 ELSE 1]

\* replayAllEvents(options) up to its second await: findMany, the early
\* return on no events, validateEventOrdering, grouping; before is history:
\* WorkflowState as the call found it
ReplayAllEvents(options) ==
    /\ procPc = "replayFindMany"
    /\ LET events == ReplayFindEvents(chainEvent, options)
       IN  IF events = <<>>
           THEN /\ procPc' = "handshake"
                /\ replay' = Nil
                /\ lastReplay' = ReplaySnapshot(chainEvent, workflowState)
           ELSE IF ~ValidateEventOrdering(events)
           THEN /\ procPc' = "exited"
                /\ replay' = Nil
                /\ UNCHANGED lastReplay
           ELSE /\ procPc' = "replayDeleteMany"
                /\ replay' = [events |-> events, groups |-> GroupOrder(events, {}),
                              options |-> options, before |-> workflowState]
                /\ UNCHANGED lastReplay
    /\ UNCHANGED <<head, dbVars, isListening, pollingInterval, server, shutdown, contract, stats, listener, cycles, failures,
                   restarts>>

\* bootstrap: await replayAllEvents({ fromBlock: 0 })
ReplayFindMany == ReplayAllEvents(BootstrapOptions)

\* await prisma.workflowState.deleteMany({})
ReplayDeleteMany ==
    /\ procPc = "replayDeleteMany"
    /\ workflowState' = WorkflowStateDeleteMany(workflowState)
    /\ procPc' = "replayUpsert"
    /\ UNCHANGED <<head, chainEvent, lastProcessedBlock, replay, isListening,
                   pollingInterval, server, shutdown, contract, stats, listener, cycles, failures, restarts, lastReplay>>

\* one turn of the rebuild loop: reduceWorkflowFromEvents and the upsert; a
\* refused row makes replayAllEvents throw and bootstrap exit
ReplayUpsert ==
    /\ procPc = "replayUpsert"
    /\ LET w == Head(replay.groups)
           state == ReduceWorkflowFromEvents(EventsOf(replay.events, w))
       IN  IF WorkflowRowAccepted(state)
           THEN /\ workflowState' = WorkflowStateUpsert(workflowState, w, state)
                /\ replay' = [replay EXCEPT !.groups = Tail(@)]
                /\ procPc' = IF Tail(replay.groups) = <<>>
                             THEN "replayUpdateSystemState" ELSE "replayUpsert"
           ELSE /\ procPc' = "exited"
                /\ replay' = Nil
                /\ UNCHANGED workflowState
    /\ UNCHANGED <<head, chainEvent, lastProcessedBlock, isListening,
                   pollingInterval, server, shutdown, contract, stats, listener, cycles, failures, restarts, lastReplay>>

\* faulty variant: the block of the first event
ReplayCheckpointFirst(events, current) == events[1].blockNumber

\* the checkpoint row after the rebuild: lastEvent.blockNumber
ReplayCheckpoint(events, current) == events[Len(events)].blockNumber

\* await prisma.systemState.update({ data: { lastProcessedBlock } })
ReplayUpdateSystemState ==
    /\ procPc = "replayUpdateSystemState"
    /\ lastProcessedBlock' = ReplayCheckpoint(replay.events, lastProcessedBlock)
    /\ procPc' = "handshake"
    /\ replay' = Nil
    /\ lastReplay' = ReplaySnapshot(chainEvent, workflowState)
    /\ UNCHANGED <<head, chainEvent, workflowState, isListening, pollingInterval, server, shutdown, contract, stats, listener,
                   cycles, failures, restarts>>

----------------------------------------------------------------------------
(* server.js: bootstrap, and the life of the process *)

\* faulty variant: the listener and the HTTP server are started before the
\* replay
BootListenFirst ==
    /\ procPc = "boot"
    /\ lastProcessedBlock' =
          IF lastProcessedBlock = NULLINT THEN 0 ELSE lastProcessedBlock
    /\ procPc' = "replayFindMany"
    /\ isListening' = TRUE
    /\ pollingInterval' = TRUE
    /\ server' = TRUE
    /\ cycles' = [cycles EXCEPT ![1] = StartedCycle]
    /\ listener' = [timers |-> listener.timers + 1, called |-> "start",
                     warned |-> FALSE]
    /\ UNCHANGED <<head, chainEvent, workflowState, replay, failures, restarts,
                   lastReplay, shutdown, contract, stats>>

\* steps 1 to 3: validateConfig, connectDatabase, initializeSystemState
\* (an upsert with update: {} that creates the singleton row at first boot)
BootInitializeSystemState ==
    /\ procPc = "boot"
    /\ lastProcessedBlock' =
          IF lastProcessedBlock = NULLINT THEN 0 ELSE lastProcessedBlock
    /\ procPc' = "replayFindMany"
    /\ UNCHANGED <<head, chainEvent, workflowState, replay, isListening,
                   pollingInterval, server, shutdown, contract, stats, listener, cycles, failures, restarts, lastReplay>>

\* steps 5 to 7: getNetwork and getBlockNumber, then startEventListener()
\* (setInterval and the immediate first pollEvents()) and app.listen; a failed
\* handshake ends in process.exit(1)
BootHandshake ==
    /\ procPc = "handshake"
    /\ \/ /\ procPc' = "running"
          /\ pollingInterval' = TRUE
          /\ isListening' = TRUE
          /\ server' = TRUE
          /\ cycles' = [cycles EXCEPT ![1] = StartedCycle]
          /\ listener' = [timers |-> listener.timers + 1, called |-> "start",
                           warned |-> FALSE]
          /\ UNCHANGED failures
       \/ /\ CanFail
          /\ failures' = failures + 1
          /\ procPc' = "exited"
          /\ UNCHANGED <<pollingInterval, server, isListening, cycles, listener>>
    /\ UNCHANGED <<head, dbVars, replay, restarts, lastReplay, shutdown,
                   contract, stats>>

\* the process is killed (or has exited) after its first step and is started
\* again: the database stays, everything in memory is lost
Restart ==
    /\ restarts < MaxRestarts
    /\ procPc # "boot"
    /\ restarts' = restarts + 1
    /\ procPc' = "boot"
    /\ replay' = Nil
    /\ isListening' = FALSE
    /\ pollingInterval' = FALSE
    /\ server' = FALSE
    /\ shutdown' = "none"
    /\ cycles' = [c \in Slots |-> IdleCycle]
    /\ listener' = NotStarted
    /\ UNCHANGED <<head, dbVars, failures, lastReplay, contract, stats>>

\* the chain produces a block
AdvanceHead ==
    /\ head < MaxHead
    /\ head' = head + 1
    /\ UNCHANGED <<dbVars, procPc, replay, isListening, pollingInterval, server, shutdown, contract, stats, listener, cycles,
                   failures, restarts, lastReplay>>

----------------------------------------------------------------------------

Init ==
    /\ head = ConfirmationBlocks
    /\ chainEvent = <<>>
    /\ workflowState = [w \in Workflows |-> Nil]
    /\ lastProcessedBlock = NULLINT
    /\ procPc = "boot"
    /\ replay = Nil
    /\ isListening = FALSE
    /\ pollingInterval = FALSE
    /\ server = FALSE
    /\ shutdown = "none"
    /\ contract = Deployed
    /\ stats = Nil
    /\ listener = NotStarted
    /\ cycles = [c \in Slots |-> IdleCycle]
    /\ failures = 0
    /\ restarts = 0
    /\ lastReplay = Nil

Next ==
    \/ BootInitializeSystemState
    \/ ReplayFindMany
    \/ ReplayDeleteMany
    \/ ReplayUpsert
    \/ ReplayUpdateSystemState
    \/ BootHandshake
    \/ Restart
    \/ AdvanceHead
    \/ \E c \in Slots : TimerFire(c)
    \/ \E c \in Slots : PollGetBlockNumber(c)
    \/ \E c \in Slots : PollFindSystemState(c)
    \/ \E c \in Slots : PollGetLogs(c)
    \/ \E c \in Slots : ProcessGetTransactionReceipt(c)
    \/ \E c \in Slots : ProcessGetBlock(c)
    \/ \E c \in Slots : ProcessChainEventUpsert(c)
    \/ \E c \in Slots : ProcessWorkflowStateFindUnique(c)
    \/ \E c \in Slots : ProcessWorkflowStateUpsert(c)
    \/ \E c \in Slots : PollUpdateSystemState(c)

Spec == Init /\ [][Next]_vars

----------------------------------------------------------------------------
(* server.js: shutdown(signal), the handler of SIGINT and SIGTERM.  The      *)
(* handler runs beside bootstrap() and the pollEvents calls in flight, which *)
(* go on at their awaits until process.exit.                                 *)

\* the signal arrives: stopEventListener() runs, then the handler awaits
\* prisma.$disconnect() in disconnectDatabase()
ShutdownSignal ==
    /\ shutdown = "none"
    /\ procPc # "exited"
    /\ shutdown' = "disconnect"
    /\ isListening' = FALSE
    /\ pollingInterval' = IF isListening THEN FALSE ELSE pollingInterval
    /\ listener' = [timers |-> IF isListening /\ pollingInterval
                               THEN listener.timers - 1 ELSE listener.timers,
                     called |-> "stop", warned |-> ~isListening]
    /\ UNCHANGED <<head, dbVars, procPc, replay, server, contract, stats, cycles,
                   failures, restarts, lastReplay>>

\* prisma.$disconnect() has returned; the handler awaits pool.end()
ShutdownDisconnect ==
    /\ shutdown = "disconnect"
    /\ shutdown' = "poolEnd"
    /\ UNCHANGED <<head, dbVars, procPc, replay, isListening, pollingInterval,
                   server, contract, stats, listener, cycles, failures, restarts, lastReplay>>

\* pool.end() has returned: process.exit(0) ends the process with whatever
\* is still awaiting
ShutdownExit ==
    /\ shutdown = "poolEnd"
    /\ shutdown' = "exited"
    /\ procPc' = "exited"
    /\ replay' = Nil
    /\ isListening' = FALSE
    /\ pollingInterval' = FALSE
    /\ server' = FALSE
    /\ cycles' = [c \in Slots |-> IdleCycle]
    /\ listener' = NotStarted
    /\ UNCHANGED <<head, dbVars, contract, stats, failures, restarts, lastReplay>>

NextShutdown ==
    \/ BootInitializeSystemState
    \/ ReplayFindMany
    \/ BootHandshake
    \/ AdvanceHead
    \/ ShutdownSignal
    \/ ShutdownDisconnect
    \/ ShutdownExit
    \/ \E c \in Slots : TimerFire(c)
    \/ \E c \in Slots : PollGetBlockNumber(c)
    \/ \E c \in Slots : PollFindSystemState(c)
    \/ \E c \in Slots : PollGetLogs(c)
    \/ \E c \in Slots : ProcessGetTransactionReceipt(c)
    \/ \E c \in Slots : ProcessGetBlock(c)
    \/ \E c \in Slots : ProcessChainEventUpsert(c)
    \/ \E c \in Slots : ProcessWorkflowStateFindUnique(c)
    \/ \E c \in Slots : ProcessWorkflowStateUpsert(c)
    \/ \E c \in Slots : PollUpdateSystemState(c)

\* the first life of the process, from its start on an empty event store
\* (replayAllEvents finds no event and returns) to its exit
SpecShutdown == Init /\ [][NextShutdown]_vars

----------------------------------------------------------------------------
(* One life of the process under fair scheduling: every awaited call        *)
(* returns (with its result or, while RPC failures remain, with an error),   *)
(* the interval timer keeps firing and the chain keeps producing blocks.     *)

NextLive ==
    \/ BootInitializeSystemState
    \/ ReplayFindMany
    \/ BootHandshake
    \/ AdvanceHead
    \/ \E c \in Slots : TimerFire(c)
    \/ \E c \in Slots : PollGetBlockNumber(c)
    \/ \E c \in Slots : PollFindSystemState(c)
    \/ \E c \in Slots : PollGetLogs(c)
    \/ \E c \in Slots : ProcessGetTransactionReceipt(c)
    \/ \E c \in Slots : ProcessGetBlock(c)
    \/ \E c \in Slots : ProcessChainEventUpsert(c)
    \/ \E c \in Slots : ProcessWorkflowStateFindUnique(c)
    \/ \E c \in Slots : ProcessWorkflowStateUpsert(c)
    \/ \E c \in Slots : PollUpdateSystemState(c)

\* the event loop runs every continuation that is ready, setInterval fires
\* for as long as the timer is set, and the chain grows
Fairness ==
    /\ WF_vars(BootInitializeSystemState)
    /\ WF_vars(ReplayFindMany)
    /\ WF_vars(BootHandshake)
    /\ WF_vars(AdvanceHead)
    /\ \A c \in Slots :
          /\ WF_vars(TimerFire(c))
          /\ WF_vars(PollGetBlockNumber(c))
          /\ WF_vars(PollFindSystemState(c))
          /\ WF_vars(PollGetLogs(c))
          /\ WF_vars(ProcessGetTransactionReceipt(c))
          /\ WF_vars(ProcessGetBlock(c))
          /\ WF_vars(ProcessChainEventUpsert(c))
          /\ WF_vars(ProcessWorkflowStateFindUnique(c))
          /\ WF_vars(ProcessWorkflowStateUpsert(c))
          /\ WF_vars(PollUpdateSystemState(c))

SpecLive == Init /\ [][NextLive]_vars /\ Fairness

----------------------------------------------------------------------------
(* listener.js alone: startEventListener and stopEventListener called in    *)
(* any order by the rest of the program, beside the timer and the           *)
(* pollEvents calls in flight                                               *)

\* the slot the model follows the next pollEvents call in
FreeSlot(c) ==
    /\ cycles[c].pc = "idle"
    /\ \A d \in Slots : d < c => cycles[d].pc # "idle"

listenerFrame ==
    <<head, dbVars, procPc, replay, server, shutdown, contract, stats,
      failures, restarts, lastReplay>>

\* faulty variant: no test of isListening
StartEventListenerNoGuard ==
    /\ \E c \in Slots :
          /\ FreeSlot(c)
          /\ cycles' = [cycles EXCEPT ![c] = StartedCycle]
    /\ pollingInterval' = TRUE
    /\ isListening' = TRUE
    /\ listener' = [timers |-> listener.timers + 1, called |-> "start",
                     warned |-> FALSE]
    /\ UNCHANGED listenerFrame

\* startEventListener(): returns with a warning when already listening;
\* otherwise setInterval, isListening = true and the first pollEvents(),
\* which runs up to its first await
StartEventListener ==
    /\ \/ /\ isListening
          /\ listener' = [listener EXCEPT !.called = "start", !.warned = TRUE]
          /\ UNCHANGED <<isListening, pollingInterval, cycles>>
       \/ /\ ~isListening
          /\ \E c \in Slots :
                /\ FreeSlot(c)
                /\ cycles' = [cycles EXCEPT ![c] = StartedCycle]
          /\ pollingInterval' = TRUE
          /\ isListening' = TRUE
          /\ listener' = [timers |-> listener.timers + 1, called |-> "start",
                           warned |-> FALSE]
    /\ UNCHANGED listenerFrame

\* stopEventListener(): returns with a warning when not listening; otherwise
\* clearInterval of the timer pollingInterval holds, and isListening = false
StopEventListener ==
    /\ \/ /\ ~isListening
          /\ listener' = [listener EXCEPT !.called = "stop", !.warned = TRUE]
          /\ UNCHANGED <<isListening, pollingInterval>>
       \/ /\ isListening
          /\ pollingInterval' = FALSE
          /\ isListening' = FALSE
          /\ listener' = [timers |-> IF pollingInterval THEN listener.timers - 1
                                     ELSE listener.timers,
                           called |-> "stop", warned |-> FALSE]
    /\ UNCHANGED cycles
    /\ UNCHANGED listenerFrame

\* the process has connected to the database and the chain; the listener
\* module is loaded and none of its functions has been called
InitListener ==
    /\ head = ConfirmationBlocks
    /\ chainEvent = <<>>
    /\ workflowState = [w \in Workflows |-> Nil]
    /\ lastProcessedBlock = 0
    /\ procPc = "running"
    /\ replay = Nil
    /\ isListening = FALSE
    /\ pollingInterval = FALSE
    /\ server = FALSE
    /\ shutdown = "none"
    /\ contract = Deployed
    /\ stats = Nil
    /\ listener = NotStarted
    /\ cycles = [c \in Slots |-> IdleCycle]
    /\ failures = 0
    /\ restarts = 0
    /\ lastReplay = Nil

NextListener ==
    \/ StartEventListener
    \/ StopEventListener
    \/ AdvanceHead
    \/ \E c \in Slots : TimerFire(c)
    \/ \E c \in Slots : PollGetBlockNumber(c)
    \/ \E c \in Slots : PollFindSystemState(c)
    \/ \E c \in Slots : PollGetLogs(c)
    \/ \E c \in Slots : ProcessGetTransactionReceipt(c)
    \/ \E c \in Slots : ProcessGetBlock(c)
    \/ \E c \in Slots : ProcessChainEventUpsert(c)
    \/ \E c \in Slots : ProcessWorkflowStateFindUnique(c)
    \/ \E c \in Slots : ProcessWorkflowStateUpsert(c)
    \/ \E c \in Slots : PollUpdateSystemState(c)

SpecListener == InitListener /\ [][NextListener]_vars

----------------------------------------------------------------------------
(* The event store alone: recordEvent, the ChainEvent upsert of               *)
(* processAndPersistEvent, called with any event data                        *)

\* rows the store holds at most
MaxRows == 3

StoreTxHashes == {"t1", "t2"}
StoreLogIndexes == {0, 1}
StoreBlocks == {1, 2}
StoreEventTypes == {"WORKFLOW_STARTED", "WORKFLOW_FAILED"}

StoreArgs(eventType) ==
    IF eventType = "WORKFLOW_STARTED" THEN [NoArgs EXCEPT !.initiator = "0xA"]
    ELSE [NoArgs EXCEPT !.reason = "fraud"]

StoreInputs ==
    { EventData(Log("w1", t, StoreArgs(t), b, 0, li, tx), t, 0, BlockTimestamp(b)) :
        t \in StoreEventTypes, b \in StoreBlocks, li \in StoreLogIndexes,
        tx \in StoreTxHashes }

\* processAndPersistEvent has built eventData and awaits the upsert
StoreCall(e) ==
    /\ cycles[1].pc \in {"idle", "workflowStateFindUnique"}
    /\ Len(chainEvent) < MaxRows \/ KeyStored(chainEvent, e)
    /\ cycles' = [cycles EXCEPT ![1] =
                    [IdleCycle EXCEPT !.pc = "chainEventUpsert", !.eventData = e]]
    /\ UNCHANGED <<head, dbVars, procPc, replay, isListening, pollingInterval, server, shutdown, contract, stats, listener,
                   failures, restarts, lastReplay>>

InitStore ==
    /\ head = MaxHead
    /\ chainEvent = <<>>
    /\ workflowState = [w \in Workflows |-> Nil]
    /\ lastProcessedBlock = 0
    /\ procPc = "running"
    /\ replay = Nil
    /\ isListening = TRUE
    /\ pollingInterval = TRUE
    /\ server = TRUE
    /\ shutdown = "none"
    /\ contract = Deployed
    /\ stats = Nil
    /\ listener = Started
    /\ cycles = [c \in Slots |-> IdleCycle]
    /\ failures = 0
    /\ restarts = 0
    /\ lastReplay = Nil

NextStore ==
    \/ \E e \in StoreInputs : StoreCall(e)
    \/ ProcessChainEventUpsert(1)

SpecStore == InitStore /\ [][NextStore]_vars

----------------------------------------------------------------------------
(* replayAllEvents alone, called by bootstrap on any database the process   *)
(* may find at its start: any ChainEvent rows the unique index admits, any  *)
(* previously derived WorkflowState rows and any checkpoint                 *)

\* ChainEvent rows the database holds at most when the process starts
MaxStored == 2

ReplayInputs ==
    { EventData(Log(w, t, StoreArgs(t), b, 0, li, tx), t, 0, BlockTimestamp(b)) :
        w \in Workflows, t \in StoreEventTypes, b \in StoreBlocks,
        li \in StoreLogIndexes, tx \in StoreTxHashes }

\* tables that satisfy ChainEvent_txHash_logIndex_key
ReplayTables ==
    { t \in UNION { [1..n -> ReplayInputs] : n \in 0..MaxStored } :
        \A i, j \in 1..Len(t) : i # j => ~SameKey(t[i], t[j]) }

\* a WorkflowState row left by an earlier run of the process
StaleRow(w) ==
    ReduceWorkflow(Nil, EventData(Log(w, "WORKFLOW_STARTED", StoreArgs("WORKFLOW_STARTED"),
                                      1, 0, 0, "t1"),
                                  "WORKFLOW_STARTED", 0, BlockTimestamp(1)))

InitReplay ==
    /\ head = MaxHead
    /\ chainEvent \in ReplayTables
    /\ workflowState \in [Workflows -> {Nil}] \cup
                         { [w \in Workflows |-> IF w \in ws THEN StaleRow(w) ELSE Nil] :
                             ws \in SUBSET Workflows }
    /\ lastProcessedBlock \in {0} \cup StoreBlocks
    /\ procPc = "replayFindMany"
    /\ replay = Nil
    /\ isListening = FALSE
    /\ pollingInterval = FALSE
    /\ server = FALSE
    /\ shutdown = "none"
    /\ contract = Deployed
    /\ stats = Nil
    /\ listener = NotStarted
    /\ cycles = [c \in Slots |-> IdleCycle]
    /\ failures = 0
    /\ restarts = 0
    /\ lastReplay = Nil

NextReplay ==
    \/ ReplayFindMany
    \/ ReplayDeleteMany
    \/ ReplayUpsert
    \/ ReplayUpdateSystemState

SpecReplay == InitReplay /\ [][NextReplay]_vars

----------------------------------------------------------------------------
(* replayAllEvents called with any options, on any database                 *)

\* options.fromBlock and options.toBlock: left out, or a block number
ReplayOptions ==
    [fromBlock : {NULLINT, 0} \cup StoreBlocks, toBlock : {NULLINT} \cup StoreBlocks]

NextReplayOptions ==
    \/ \E options \in ReplayOptions : ReplayAllEvents(options)
    \/ ReplayDeleteMany
    \/ ReplayUpsert
    \/ ReplayUpdateSystemState

SpecReplayOptions == InitReplay /\ [][NextReplayOptions]_vars

----------------------------------------------------------------------------
(* The reducer alone: the loop of reduceWorkflowFromEvents over any event   *)
(* sequence of one workflow.  chainEvent holds the events applied so far,   *)
(* workflowState[ReducerWorkflow] the state the loop has reached.           *)

\* events one sequence holds at most
MaxEvents == 4

ReducerWorkflow == "w1"

ReducerEventTypes ==
    {"WORKFLOW_STARTED", "DECISION_RECORDED", "PAYMENT_EXECUTED",
     "WORKFLOW_COMPLETED", "WORKFLOW_FAILED", "UNKNOWN"}

ReducerTimestamps == {1000, 1030}

ReducerReasons == {"fraud", "limit"}

\* the payloads processAndPersistEvent builds for an event type
ReducerPayloads(eventType) ==
    CASE eventType = "WORKFLOW_STARTED" ->
            { [initiator |-> a] : a \in {"0xA", "0xB"} }
      [] eventType = "DECISION_RECORDED" ->
            { [approved |-> TRUE, reason |-> "ok"] }
                \cup { [approved |-> FALSE, reason |-> r] : r \in ReducerReasons }
      [] eventType = "PAYMENT_EXECUTED" -> { [to |-> NULL, amount |-> NULL] }
      [] eventType = "WORKFLOW_FAILED" -> { [reason |-> r] : r \in ReducerReasons }
      [] OTHER -> { <<>> }

\* the k-th event of a sequence: block 9 + k, log index k, any type, payload
\* and block timestamp
ReducerEvents(k) ==
    UNION { { [workflowId |-> ReducerWorkflow, eventType |-> t, payload |-> p,
               blockNumber |-> 9 + k, transactionIndex |-> 0, logIndex |-> k,
               txHash |-> "t1", blockTimestamp |-> ts] :
                 p \in ReducerPayloads(t), ts \in ReducerTimestamps } :
            t \in ReducerEventTypes }

\* one turn of the loop: state = reduceWorkflow(state, event)
ReduceStep(e) ==
    /\ Len(chainEvent) < MaxEvents
    /\ chainEvent' = Append(chainEvent, e)
    /\ workflowState' =
          [workflowState EXCEPT ![ReducerWorkflow] = ReduceWorkflow(@, e)]
    /\ UNCHANGED <<head, lastProcessedBlock, procPc, replay, isListening,
                   pollingInterval, server, shutdown, contract, stats, listener, cycles, failures, restarts,
                   lastReplay>>

InitReducer ==
    /\ head = MaxHead
    /\ chainEvent = <<>>
    /\ workflowState = [w \in Workflows |-> Nil]
    /\ lastProcessedBlock = 0
    /\ procPc = "running"
    /\ replay = Nil
    /\ isListening = FALSE
    /\ pollingInterval = FALSE
    /\ server = FALSE
    /\ shutdown = "none"
    /\ contract = Deployed
    /\ stats = Nil
    /\ listener = NotStarted
    /\ cycles = [c \in Slots |-> IdleCycle]
    /\ failures = 0
    /\ restarts = 0
    /\ lastReplay = Nil

NextReducer == \E e \in ReducerEvents(Len(chainEvent) + 1) : ReduceStep(e)

SpecReducer == InitReducer /\ [][NextReducer]_vars

----------------------------------------------------------------------------
(* validateEventOrdering alone, called with any sequence of events; replay  *)
(* holds the sequence of the last call and what the call returned           *)

\* events one validated sequence holds at most
MaxLen == 3

ValidatorEvents ==
    [blockNumber : {1, 2}, transactionIndex : {0, 1}, logIndex : {0, 1}]

ValidatorInputs == UNION { [1..n -> ValidatorEvents] : n \in 0..MaxLen }

ValidateCall(events) ==
    /\ replay = Nil
    /\ replay' = [events |-> events, valid |-> ValidateEventOrdering(events)]
    /\ UNCHANGED <<head, dbVars, procPc, isListening, pollingInterval, server, shutdown, contract, stats, listener,
                   cycles, failures, restarts, lastReplay>>

NextValidator == \E events \in ValidatorInputs : ValidateCall(events)

SpecValidator == InitReducer /\ [][NextValidator]_vars

----------------------------------------------------------------------------
(* The range and the chunks of one pollEvents call, for checkpoints and     *)
(* confirmed heads at and around the multiples of MAX_BLOCK_RANGE           *)

\* chunks one range holds at most
MaxChunks == 3

\* block numbers next to a multiple of MAX_BLOCK_RANGE
ChunkEdges ==
    { k * MAX_BLOCK_RANGE + d : k \in 0..MaxChunks, d \in {0 - 1, 0, 1, 2} } \ {0 - 1}

\* the call has read the block number and awaits the checkpoint
InitChunks ==
    /\ head \in { b + ConfirmationBlocks : b \in ChunkEdges }
    /\ chainEvent = <<>>
    /\ workflowState = [w \in Workflows |-> Nil]
    /\ lastProcessedBlock \in { b \in ChunkEdges : b + ConfirmationBlocks <= head }
    /\ procPc = "running"
    /\ replay = Nil
    /\ isListening = TRUE
    /\ pollingInterval = TRUE
    /\ server = TRUE
    /\ shutdown = "none"
    /\ contract = Deployed
    /\ stats = Nil
    /\ listener = Started
    /\ cycles = [c \in Slots |->
                   IF c = 1 THEN [StartedCycle EXCEPT !.pc = "findSystemState",
                                                      !.latestBlock = head]
                   ELSE IdleCycle]
    /\ failures = 0
    /\ restarts = 0
    /\ lastReplay = Nil

NextChunks == PollFindSystemState(1)

SpecChunks == InitChunks /\ [][NextChunks]_vars

----------------------------------------------------------------------------
(* X402HelloWorld.sol: the functions of the contract, called by anyone in   *)
(* any order.  A call that reverts leaves storage and logs as they were.   *)
(* executePayment hands control to the recipient at to.call: until that    *)
(* call returns the recipient may call the contract again.                 *)

\* executePayment calls that await their transfer at the same time, at most
MaxDepth == 2

offChainVars ==
    <<head, dbVars, procPc, replay, isListening, pollingInterval, server,
      shutdown, stats, listener, cycles, failures, restarts, lastReplay>>

ContractReasons == {"fraud", "limit"}

\* msg.value of executePayment
ContractValues == {0, 5}

\* the ids a call names: the workflows that exist, and one id that may not
CallTargets ==
    { id \in ContractIds : contract.workflows[id].state # "None" }
        \cup { Keccak("0xA", MaxWorkflows, 1000) }

Called(fn, id, ok) ==
    [fn |-> fn, workflowId |-> id, ok |-> ok]

\* emit Event(workflowId, ...)
Emit(logs, id, eventType, args) ==
    Append(logs, [workflowId |-> id, eventType |-> eventType, args |-> args])

Reverted(fn, id) == [contract EXCEPT !.last = Called(fn, id, FALSE)]

\* startWorkflow()
StartWorkflow(sender, timestamp) ==
    /\ contract.workflowCounter < MaxWorkflows
    /\ LET n == contract.workflowCounter + 1
           id == Keccak(sender, n, timestamp)
       IN  contract' =
             [contract EXCEPT
                !.workflowCounter = n,
                !.workflows[id] =
                    [state |-> "Active", initiator |-> sender, amount |-> 0],
                !.logs = Emit(@, id, "WORKFLOW_STARTED",
                              [NoArgs EXCEPT !.initiator = sender]),
                !.last = Called("startWorkflow", id, TRUE)]
    /\ UNCHANGED offChainVars

\* faulty variant: on a rejection WorkflowFailed is emitted before
\* DecisionRecorded
RecordDecisionFailedFirst(id, approve, reason) ==
    /\ contract' =
          IF contract.workflows[id].state # "Active"
          THEN Reverted("recordDecision", id)
          ELSE LET decision ==
                     [NoArgs EXCEPT !.approved = approve, !.reason = reason]
               IN  IF approve
                   THEN [contract EXCEPT
                           !.workflows[id].state = "Approved",
                           !.logs = Emit(@, id, "DECISION_RECORDED", decision),
                           !.last = Called("recordDecision", id, TRUE)]
                   ELSE [contract EXCEPT
                           !.workflows[id].state = "Rejected",
                           !.logs = Emit(Emit(@, id, "WORKFLOW_FAILED",
                                              [NoArgs EXCEPT !.reason = reason]),
                                         id, "DECISION_RECORDED", decision),
                           !.last = Called("recordDecision", id, TRUE)]
    /\ UNCHANGED offChainVars

\* recordDecision(workflowId, approve, reason)
RecordDecision(id, approve, reason) ==
    /\ contract' =
          IF contract.workflows[id].state # "Active"
          THEN Reverted("recordDecision", id)
          ELSE LET decided ==
                     Emit(contract.logs, id, "DECISION_RECORDED",
                          [NoArgs EXCEPT !.approved = approve, !.reason = reason])
               IN  IF approve
                   THEN [contract EXCEPT
                           !.workflows[id].state = "Approved",
                           !.logs = decided,
                           !.last = Called("recordDecision", id, TRUE)]
                   ELSE [contract EXCEPT
                           !.workflows[id].state = "Rejected",
                           !.logs = Emit(decided, id, "WORKFLOW_FAILED",
                                         [NoArgs EXCEPT !.reason = reason]),
                           !.last = Called("recordDecision", id, TRUE)]
    /\ UNCHANGED offChainVars

\* executePayment(workflowId, to) with msg.value = value, up to to.call
ExecutePayment(id, value) ==
    /\ \/ /\ contract.workflows[id].state # "Approved" \/ value = 0
          /\ contract' = Reverted("executePayment", id)
       \/ /\ contract.workflows[id].state = "Approved" /\ value # 0
          /\ Len(contract.stack) < MaxDepth
          /\ contract' =
                [contract EXCEPT
                   !.workflows[id].amount = value,
                   !.stack = Append(@, [workflowId |-> id,
                                        saved |-> [workflowCounter |-> contract.workflowCounter,
                                                   workflows |-> contract.workflows,
                                                   logs |-> contract.logs]])]
    /\ UNCHANGED offChainVars

\* to.call returns to the innermost executePayment: on success the workflow
\* is settled; on failure the call reverts with everything done since it
\* began, the WorkflowFailed event it has just emitted included
TransferReturns(success) ==
    /\ contract.stack # <<>>
    /\ LET frame == contract.stack[Len(contract.stack)]
           id == frame.workflowId
           rest == SubSeq(contract.stack, 1, Len(contract.stack) - 1)
       IN  contract' =
             IF success
             THEN [contract EXCEPT
                     !.workflows[id].state = "Settled",
                     !.logs = Emit(@, id, "PAYMENT_EXECUTED", NoArgs),
                     !.stack = rest,
                     !.last = Called("executePayment", id, TRUE)]
             ELSE [contract EXCEPT
                     !.workflowCounter = frame.saved.workflowCounter,
                     !.workflows = frame.saved.workflows,
                     !.logs = frame.saved.logs,
                     !.stack = rest,
                     !.last = Called("executePayment", id, FALSE)]
    /\ UNCHANGED offChainVars

\* faulty variant: any workflow that exists can be completed
CompleteWorkflowAnyState(id) ==
    /\ contract' =
          IF contract.workflows[id].state = "None"
          THEN Reverted("completeWorkflow", id)
          ELSE [contract EXCEPT
                  !.workflows[id].state = "Completed",
                  !.logs = Emit(@, id, "WORKFLOW_COMPLETED", NoArgs),
                  !.last = Called("completeWorkflow", id, TRUE)]
    /\ UNCHANGED offChainVars

\* completeWorkflow(workflowId)
CompleteWorkflow(id) ==
    /\ contract' =
          IF contract.workflows[id].state # "Settled"
          THEN Reverted("completeWorkflow", id)
          ELSE [contract EXCEPT
                  !.workflows[id].state = "Completed",
                  !.logs = Emit(@, id, "WORKFLOW_COMPLETED", NoArgs),
                  !.last = Called("completeWorkflow", id, TRUE)]
    /\ UNCHANGED offChainVars

NextContract ==
    \/ \E a \in Senders, t \in ContractTimestamps : StartWorkflow(a, t)
    \/ \E id \in CallTargets, r \in ContractReasons :
          \E approve \in BOOLEAN : RecordDecision(id, approve, r)
    \/ \E id \in CallTargets, v \in ContractValues : ExecutePayment(id, v)
    \/ \E success \in BOOLEAN : TransferReturns(success)
    \/ \E id \in CallTargets : CompleteWorkflow(id)

SpecContract == InitReducer /\ [][NextContract]_vars

----------------------------------------------------------------------------
(* routes: GET /stats alone, on any content of WorkflowState.  The handler  *)
(* sends five count queries at once (Promise.all) and answers when all have *)
(* returned.                                                                *)

StatsWorkflows == {"w1", "w2", "w3"}

Statuses == {"RUNNING", "COMPLETED", "FAILED", "REJECTED"}

StatsRow(w, status) ==
    [workflowId |-> w, status |-> status, initiator |-> "0xA",
     startedAt |-> 1000, completedAt |-> NULLINT, failureReason |-> NULL,
     lastEventBlock |-> 1, lastEventLogIndex |-> 0]

\* every table of up to three rows
StatsTables ==
    { [w \in StatsWorkflows |->
          IF f[w] = "none" THEN Nil ELSE StatsRow(w, f[w])] :
        f \in [StatsWorkflows -> Statuses \cup {"none"}] }

\* the where.status of the five counts, NULL for the count of all rows
StatsQueries == <<NULL, "RUNNING", "COMPLETED", "FAILED", "REJECTED">>

\* prisma.workflowState.count({ where: { status } })
Count(table, status) ==
    Cardinality({ w \in DOMAIN table :
                    /\ table[w] # Nil
                    /\ status = NULL \/ table[w].status = status })

\* faulty variant: failed: failed
StatsResponseFailedOnly(counts) ==
    [total |-> counts[1], running |-> counts[2], completed |-> counts[3],
     failed |-> counts[4]]

\* res.json({ total, running, completed, failed: failed + rejected })
StatsResponse(counts) ==
    [total |-> counts[1], running |-> counts[2], completed |-> counts[3],
     failed |-> counts[4] + counts[5]]

statsFrame ==
    <<head, dbVars, procPc, replay, isListening, pollingInterval, server,
      shutdown, contract, listener, cycles, failures, restarts, lastReplay>>

\* the request arrives and the five queries are sent
StatsRequest ==
    /\ stats = Nil
    /\ stats' = [counts |-> [k \in 1..Len(StatsQueries) |-> NULLINT],
                 response |-> Nil]
    /\ UNCHANGED statsFrame

\* the k-th count returns
StatsCount(k) ==
    /\ stats # Nil
    /\ stats.counts[k] = NULLINT
    /\ stats' = [stats EXCEPT
                    !.counts[k] = Count(workflowState, StatsQueries[k])]
    /\ UNCHANGED statsFrame

\* all five have returned: the response is sent
StatsRespond ==
    /\ stats # Nil
    /\ stats.response = Nil
    /\ \A k \in 1..Len(StatsQueries) : stats.counts[k] # NULLINT
    /\ stats' = [stats EXCEPT !.response = StatsResponse(stats.counts)]
    /\ UNCHANGED statsFrame

InitStats ==
    /\ head = MaxHead
    /\ chainEvent = <<>>
    /\ workflowState \in StatsTables
    /\ lastProcessedBlock = 0
    /\ procPc = "running"
    /\ replay = Nil
    /\ isListening = FALSE
    /\ pollingInterval = FALSE
    /\ server = TRUE
    /\ shutdown = "none"
    /\ contract = Deployed
    /\ stats = Nil
    /\ listener = NotStarted
    /\ cycles = [c \in Slots |-> IdleCycle]
    /\ failures = 0
    /\ restarts = 0
    /\ lastReplay = Nil

NextStats ==
    \/ StatsRequest
    \/ \E k \in 1..Len(StatsQueries) : StatsCount(k)
    \/ StatsRespond

SpecStats == InitStats /\ [][NextStats]_vars

----------------------------------------------------------------------------
(* GET /stats beside ingestion: one request, sent at any moment of the      *)
(* first poll cycle of a running process, before the timer fires again      *)

\* the process has started its listener and HTTP server; the initial
\* pollEvents() awaits getBlockNumber and block 1 is confirmed
InitStatsLive ==
    /\ head = ConfirmationBlocks + 1
    /\ chainEvent = <<>>
    /\ workflowState = [w \in Workflows |-> Nil]
    /\ lastProcessedBlock = 0
    /\ procPc = "running"
    /\ replay = Nil
    /\ isListening = TRUE
    /\ pollingInterval = TRUE
    /\ server = TRUE
    /\ shutdown = "none"
    /\ contract = Deployed
    /\ stats = Nil
    /\ listener = Started
    /\ cycles = [c \in Slots |-> IF c = 1 THEN StartedCycle ELSE IdleCycle]
    /\ failures = 0
    /\ restarts = 0
    /\ lastReplay = Nil

NextStatsLive ==
    \/ StatsRequest
    \/ \E k \in 1..Len(StatsQueries) : StatsCount(k)
    \/ StatsRespond
    \/ PollGetBlockNumber(1)
    \/ PollFindSystemState(1)
    \/ PollGetLogs(1)
    \/ ProcessGetTransactionReceipt(1)
    \/ ProcessGetBlock(1)
    \/ ProcessChainEventUpsert(1)
    \/ ProcessWorkflowStateFindUnique(1)
    \/ ProcessWorkflowStateUpsert(1)
    \/ PollUpdateSystemState(1)

SpecStatsLive == InitStatsLive /\ [][NextStatsLive]_vars

----------------------------------------------------------------------------
(* Properties *)

RowsOf(w) == { r \in SeqToSet(chainEvent) : r.workflowId = w }

\* no poll cycle and no replay is in progress
Quiescent == procPc = "running" /\ \A c \in Slots : cycles[c].pc = "idle"

InFlight == { c \in Slots : cycles[c].pc # "idle" }

Stored(l) ==
    \E i \in 1..Len(chainEvent) : /\ chainEvent[i].txHash = l.transactionHash
                                  /\ chainEvent[i].logIndex = l.index

ReplayPcs == {"replayFindMany", "replayDeleteMany", "replayUpsert",
              "replayUpdateSystemState"}

\* C1: whenever no cycle and no replay is in progress, the WorkflowState row
\* of every workflow is the left-to-right fold of the reducer over its
\* ChainEvent rows in canonical order (no row when it has no event).
C1_StateIsFoldOfEvents ==
    Quiescent =>
        \A w \in Workflows :
            workflowState[w] = ReduceWorkflowFromEvents(OrderByCanonical(RowsOf(w)))

\* C2: at most one poll cycle is in progress at any time.
C2_NoOverlappingCycles == Cardinality(InFlight) <= 1

\* C3: no step lowers lastProcessedBlock.
C3_CheckpointNeverDecreases ==
    [][lastProcessedBlock' >= lastProcessedBlock]_vars

\* C4: every log of the chain at or below the checkpoint has its row in
\* ChainEvent.
C4_CheckpointCoversStoredEvents ==
    \A l \in ChainLogs :
        (lastProcessedBlock # NULLINT /\ l.blockNumber <= lastProcessedBlock)
            => Stored(l)

\* C5: a poll cycle in which an RPC call has failed does not advance
\* lastProcessedBlock when it ends.
C5_RpcFailureKeepsCheckpoint ==
    [][\A c \in Slots :
          (/\ cycles[c].rpcFailed
           /\ cycles[c].pc = "updateSystemState"
           /\ cycles'[c].pc = "idle"
           /\ restarts' = restarts)
              => lastProcessedBlock' <= lastProcessedBlock]_vars

\* C6: every ChainEvent row is of a block with at least ConfirmationBlocks
\* confirmations, and every block range a cycle queries ends at or below
\* head - ConfirmationBlocks.
C6_OnlyConfirmedEventsStored ==
    /\ \A i \in 1..Len(chainEvent) :
          chainEvent[i].blockNumber + ConfirmationBlocks <= head
    /\ \A c \in Slots : \A k \in 1..Len(cycles[c].chunks) :
          cycles[c].chunks[k].to + ConfirmationBlocks <= head

\* a log is stored when its block has exactly ConfirmationBlocks
\* confirmations
C6_Witness ==
    \E i \in 1..Len(chainEvent) :
        chainEvent[i].blockNumber + ConfirmationBlocks = head

\* C7: an upsert of an event whose (txHash, logIndex) is already stored
\* leaves the ChainEvent table, and so the first-written row, as it was.
C7_FirstWriteWins ==
    [][(/\ cycles[1].pc = "chainEventUpsert"
        /\ KeyStored(chainEvent, cycles[1].eventData))
          => chainEvent' = chainEvent]_vars

\* an event has been recorded whose key was stored with other values
C7_Witness ==
    /\ cycles[1].pc = "workflowStateFindUnique"
    /\ \E i \in 1..Len(chainEvent) :
          /\ SameKey(chainEvent[i], cycles[1].eventData)
          /\ chainEvent[i].payload # cycles[1].eventData.payload
          /\ chainEvent[i].blockNumber # cycles[1].eventData.blockNumber

\* C8: no two ChainEvent rows share (txHash, logIndex).
C8_UniqueKeys ==
    \A i, j \in 1..Len(chainEvent) :
        i # j => ~SameKey(chainEvent[i], chainEvent[j])

\* two cycles in flight have both recorded the same log
C8_Witness ==
    /\ cycles[1].pc = "workflowStateFindUnique"
    /\ cycles[2].pc = "workflowStateFindUnique"
    /\ cycles[1].eventData = cycles[2].eventData
    /\ KeyStored(chainEvent, cycles[1].eventData)

\* C9: every step keeps every ChainEvent row in its place, and a step of the
\* replay leaves the table unchanged.
C9_ChainEventAppendOnly ==
    [][/\ Len(chainEvent') >= Len(chainEvent)
       /\ \A i \in 1..Len(chainEvent) : chainEvent'[i] = chainEvent[i]
       /\ procPc \in ReplayPcs => chainEvent' = chainEvent]_vars

\* a replay has rebuilt WorkflowState over a store of several rows
C9_Witness ==
    /\ procPc = "handshake"
    /\ Len(chainEvent) >= 2
    /\ lastReplay # Nil
    /\ lastReplay.events = chainEvent
    /\ \E w \in Workflows : workflowState[w] # Nil

\* C10: a replay that completes over the ChainEvent content the previous
\* completed replay found leaves the WorkflowState rows that replay left.
C10_ReplayIdempotent ==
    [][(/\ procPc \in ReplayPcs
        /\ procPc' = "handshake"
        /\ lastReplay # Nil
        /\ lastReplay.events = chainEvent)
          => workflowState' = lastReplay.rows]_vars

\* two replays in a row have completed over the same non-empty store
C10_Witness ==
    /\ lastReplay # Nil
    /\ lastReplay.runs = 2
    /\ lastReplay.events # <<>>
    /\ \E w \in Workflows : lastReplay.rows[w] # Nil

\* the sequence is strictly increasing in the canonical order
IsOrdered(events) ==
    \A i \in 2..Len(events) : CanonLess(events[i - 1], events[i])

C12_StartupBarrier ==
    [][/\ (isListening' \/ pollingInterval' \/ server' \/ InFlight' # {})
              => procPc' = "running"
       /\ (procPc' = "running" /\ procPc # "running") => procPc = "handshake"
       /\ (procPc' = "handshake" /\ procPc # "handshake")
              => procPc \in {"replayFindMany", "replayUpdateSystemState"}]_vars

\* a restarted process is running, with poller and HTTP server started, after
\* a replay over a non-empty store
C12_Witness ==
    /\ procPc = "running"
    /\ isListening /\ server
    /\ restarts > 0
    /\ lastReplay # Nil
    /\ lastReplay.events # <<>>

MaxBlockNumber(table) ==
    CHOOSE b \in { r.blockNumber : r \in SeqToSet(table) } :
        \A r \in SeqToSet(table) : r.blockNumber <= b

\* C14: a replay that completes over a non-empty ChainEvent sets
\* lastProcessedBlock to the largest blockNumber of its rows; over an empty
\* ChainEvent it leaves lastProcessedBlock as it was.
C14_ReplayCheckpointIsMaxBlock ==
    [][(procPc \in ReplayPcs /\ procPc' = "handshake")
          => lastProcessedBlock' = IF chainEvent = <<>> THEN lastProcessedBlock
                                   ELSE MaxBlockNumber(chainEvent)]_vars

\* a replay has completed over rows of two blocks that were inserted with the
\* later block first
C14_Witness ==
    /\ procPc = "handshake"
    /\ Len(chainEvent) >= 2
    /\ chainEvent[1].blockNumber > chainEvent[2].blockNumber
    /\ lastProcessedBlock = chainEvent[1].blockNumber

\* positions of a poll cycle inside the chunk loops
LoopPcs == {"getLogs", "getTransactionReceipt", "getBlock", "chainEventUpsert",
            "workflowStateFindUnique", "workflowStateUpsert"}

\* C15: a poll cycle that has entered the chunk loops (its range is not
\* empty) leaves them without the checkpoint write only when an RPC call
\* throws or the process ends, and the write sets lastProcessedBlock to the
\* upper bound of the range, whether or not logs were found.
C15_CycleAdvancesToUpperBound ==
    [][\A c \in Slots :
          /\ (cycles[c].pc \in LoopPcs /\ cycles'[c].pc = "idle")
                => (failures' > failures \/ restarts' > restarts)
          /\ (/\ cycles[c].pc = "updateSystemState"
              /\ cycles'[c].pc = "idle"
              /\ restarts' = restarts)
                => /\ lastProcessedBlock' = cycles[c].toBlock
                   /\ cycles[c].toBlock > cycles[c].lastProcessedBlock]_vars

\* a cycle that found no log in a non-empty range is at its checkpoint write
C15_Witness ==
    \E c \in Slots :
        /\ cycles[c].pc = "updateSystemState"
        /\ cycles[c].totalLogs = 0
        /\ ~cycles[c].rpcFailed
        /\ cycles[c].toBlock > cycles[c].lastProcessedBlock

\* the row was last written for an event that comes after event e in the
\* canonical order (logIndex counts the logs of a whole block)
AppliedAfter(row, e) ==
    \/ row.lastEventBlock > e.blockNumber
    \/ /\ row.lastEventBlock = e.blockNumber
       /\ row.lastEventLogIndex > e.logIndex

\* C16: the poller never applies an event to the WorkflowState row of a
\* workflow after a later event of that workflow has been applied to it.
C16_LiveFoldInCanonicalOrder ==
    [][\A c \in Slots :
          (/\ cycles[c].pc = "workflowStateUpsert"
           /\ cycles'[c].pc # "workflowStateUpsert"
           /\ restarts' = restarts
           /\ WorkflowRowAccepted(ReduceWorkflow(cycles[c].workflowState,
                                                 cycles[c].eventData)))
              => LET row == workflowState[cycles[c].eventData.workflowId]
                 IN  row = Nil \/ ~AppliedAfter(row, cycles[c].eventData)]_vars

\* the state the reducer loop has reached
Reduced == workflowState[ReducerWorkflow]

\* the events applied so far are of these types, in this order
TypesApplied(types) ==
    /\ Len(chainEvent) = Len(types)
    /\ \A i \in 1..Len(types) : chainEvent[i].eventType = types[i]

\* C17: the fold of WORKFLOW_STARTED, DECISION_RECORDED(approved),
\* PAYMENT_EXECUTED, WORKFLOW_COMPLETED from no state is COMPLETED with the
\* initiator and timestamp of the first event, the timestamp, block and log
\* index of the last, and no failure reason.
C17_CompletedLifecycleFold ==
    (/\ TypesApplied(<<"WORKFLOW_STARTED", "DECISION_RECORDED",
                       "PAYMENT_EXECUTED", "WORKFLOW_COMPLETED">>)
     /\ chainEvent[2].payload.approved)
        => Reduced = [workflowId |-> ReducerWorkflow,
                      status |-> "COMPLETED",
                      initiator |-> chainEvent[1].payload.initiator,
                      startedAt |-> chainEvent[1].blockTimestamp,
                      completedAt |-> chainEvent[4].blockTimestamp,
                      failureReason |-> NULL,
                      lastEventBlock |-> chainEvent[4].blockNumber,
                      lastEventLogIndex |-> chainEvent[4].logIndex]

\* the four events have been folded, started and completed at different
\* times
C17_Witness ==
    /\ TypesApplied(<<"WORKFLOW_STARTED", "DECISION_RECORDED",
                      "PAYMENT_EXECUTED", "WORKFLOW_COMPLETED">>)
    /\ chainEvent[2].payload.approved
    /\ chainEvent[1].blockTimestamp # chainEvent[4].blockTimestamp
    /\ chainEvent[3].blockTimestamp # chainEvent[4].blockTimestamp
    /\ Reduced.status = "COMPLETED"

\* C18: applied to the state folded from WORKFLOW_STARTED alone, a
\* DECISION_RECORDED that is not approved gives REJECTED with the event's
\* timestamp and reason, and an approved one gives RUNNING and leaves
\* completedAt and failureReason as they were; the other fields keep the
\* start and take the position of the decision.
C18_DecisionFold ==
    [][(/\ TypesApplied(<<"WORKFLOW_STARTED">>)
        /\ TypesApplied(<<"WORKFLOW_STARTED", "DECISION_RECORDED">>)')
          => LET d == chainEvent'[2]
             IN  Reduced' =
                   IF d.payload.approved
                   THEN [Reduced EXCEPT !.status = "RUNNING",
                                        !.lastEventBlock = d.blockNumber,
                                        !.lastEventLogIndex = d.logIndex]
                   ELSE [Reduced EXCEPT !.status = "REJECTED",
                                        !.completedAt = d.blockTimestamp,
                                        !.failureReason = d.payload.reason,
                                        !.lastEventBlock = d.blockNumber,
                                        !.lastEventLogIndex = d.logIndex]]_vars

\* a rejection has been folded after a start that carries another timestamp
C18_Witness ==
    /\ TypesApplied(<<"WORKFLOW_STARTED", "DECISION_RECORDED">>)
    /\ ~chainEvent[2].payload.approved
    /\ chainEvent[2].payload.reason = "limit"
    /\ chainEvent[2].blockTimestamp # chainEvent[1].blockTimestamp
    /\ Reduced.status = "REJECTED"

\* C19: validateEventOrdering returns true exactly for the sequences in
\* which every event comes strictly after the one before it in the order on
\* (blockNumber, transactionIndex, logIndex).
C19_ValidatorIsStrictOrder ==
    replay # Nil => (replay.valid <=> IsOrdered(replay.events))

\* a sequence that rises and then repeats a position has been refused
C19_Witness ==
    /\ replay # Nil
    /\ Len(replay.events) = 3
    /\ CanonLess(replay.events[1], replay.events[2])
    /\ replay.events[2] = replay.events[3]
    /\ ~replay.valid

LastApplied == chainEvent[Len(chainEvent)]

\* the state carries the position of the event applied last
StampedWithLast ==
    /\ Reduced.lastEventBlock = LastApplied.blockNumber
    /\ Reduced.lastEventLogIndex = LastApplied.logIndex

\* C21: after the reducer has applied an event of one of the five event
\* types, to whatever prior state, lastEventBlock and lastEventLogIndex of
\* the result are the blockNumber and logIndex of that event.
C21_KnownEventStampsPosition ==
    (/\ Len(chainEvent) > 0
     /\ LastApplied.eventType \in SeqToSet(EventTypeNames))
        => StampedWithLast

\* a PAYMENT_EXECUTED has been applied to a state that carried the position
\* of an earlier event
C21_Witness ==
    /\ Len(chainEvent) = 3
    /\ LastApplied.eventType = "PAYMENT_EXECUTED"
    /\ chainEvent[2].eventType = "UNKNOWN"
    /\ Reduced.lastEventBlock = 12
    /\ Reduced.lastEventLogIndex = 3

\* C21 as stated, for every event: after the reducer has applied any event
\* the result carries the position of that event.
C21_EveryEventStampsPosition ==
    Len(chainEvent) > 0 => StampedWithLast

\* C22: a WorkflowState with status RUNNING or COMPLETED has no failure
\* reason, whatever sequence of events has been folded into it.
C22_FailureReasonOnlyWhenFailed ==
    \A w \in Workflows :
        (/\ workflowState[w] # Nil
         /\ workflowState[w].status \in {"RUNNING", "COMPLETED"})
            => workflowState[w].failureReason = NULL

\* the position of event e is at or before the position the row carries
AtOrBefore(e, row) ==
    \/ e.blockNumber < row.lastEventBlock
    \/ /\ e.blockNumber = row.lastEventBlock
       /\ e.logIndex <= row.lastEventLogIndex

\* C24: when processAndPersistEvent comes to write the state for an event
\* whose position is at or before the one the WorkflowState row of its
\* workflow carries, the row is left as it is.
C24_NoEventFoldedTwice ==
    [][\A c \in Slots :
          LET e == cycles[c].eventData
          IN  (/\ cycles[c].pc = "workflowStateUpsert"
               /\ cycles'[c].pc # "workflowStateUpsert"
               /\ restarts' = restarts
               /\ workflowState[e.workflowId] # Nil
               /\ AtOrBefore(e, workflowState[e.workflowId]))
                  => workflowState'[e.workflowId] = workflowState[e.workflowId]]_vars

\* the i-th log the contract has emitted as processAndPersistEvent stores it,
\* every log in a block and a transaction of its own
EmittedEvent(i) ==
    LET l == contract.logs[i]
    IN  EventData(Log(l.workflowId, l.eventType, l.args, i, 0, i, "t"),
                  l.eventType, 0, BlockTimestamp(i))

\* the events of workflow id among the logs from the i-th on, in chain order
RECURSIVE EmittedFrom(_, _)
EmittedFrom(id, i) ==
    IF i > Len(contract.logs) THEN <<>>
    ELSE (IF contract.logs[i].workflowId = id THEN <<EmittedEvent(i)>> ELSE <<>>)
            \o EmittedFrom(id, i + 1)

\* the derived status that stands for a state of the contract
MirrorStatus(state) ==
    CASE state \in {"Active", "Approved", "Settled"} -> "RUNNING"
      [] state = "Completed" -> "COMPLETED"
      [] state = "Rejected" -> "REJECTED"
      [] state = "Failed" -> "FAILED"

\* C23: between transactions, the status folded from the events the
\* contract has emitted for a workflow is RUNNING while the workflow is
\* Active, Approved or Settled, COMPLETED when it is Completed, REJECTED when
\* it is Rejected and FAILED when it is Failed.
C23_StatusMirrorsContract ==
    \A id \in ContractIds :
        (/\ contract.stack = <<>>
         /\ contract.workflows[id].state # "None")
            => ReduceWorkflowFromEvents(EmittedFrom(id, 1)).status
                  = MirrorStatus(contract.workflows[id].state)

\* C25: once the shutdown signal has arrived no pollEvents call starts, and
\* the process exits only when no pollEvents call is in progress.
C25_ShutdownLetsCycleFinish ==
    [][/\ (shutdown # "none" /\ shutdown' # "none")
            => \A c \in Slots : cycles[c].pc = "idle" => cycles'[c].pc = "idle"
       /\ (shutdown = "poolEnd" /\ shutdown' = "exited") => InFlight = {}]_vars

\* C26: a poll cycle starts its range at the stored lastProcessedBlock + 1
\* (at config.blockStart + 1 when there is no row), and in the first life of
\* the process, which boots on an empty event store, no getLogs call asks for
\* a block below config.blockStart.
C26_PollStartsAtCheckpoint ==
    [][\A c \in Slots :
          /\ (cycles[c].pc = "findSystemState" /\ cycles'[c].pc = "getLogs")
                => cycles'[c].chunks[1].from =
                      (IF lastProcessedBlock # NULLINT THEN lastProcessedBlock
                       ELSE BlockStart) + 1
          /\ (restarts' = 0 /\ cycles'[c].pc = "getLogs")
                => cycles'[c].chunks[cycles'[c].ci].from >= BlockStart]_vars

\* C27: the answer of GET /stats has total = the number of WorkflowState
\* rows, running and completed = the rows with that status, and failed = the
\* rows with status FAILED plus the rows with status REJECTED.
C27_StatsCountsByStatus ==
    (stats # Nil /\ stats.response # Nil)
        => LET n(S) == Cardinality({ w \in DOMAIN workflowState :
                                       /\ workflowState[w] # Nil
                                       /\ workflowState[w].status \in S })
           IN  stats.response = [total |-> n(Statuses),
                                 running |-> n({"RUNNING"}),
                                 completed |-> n({"COMPLETED"}),
                                 failed |-> n({"FAILED", "REJECTED"})]

\* three workflows with statuses RUNNING, COMPLETED and REJECTED have been
\* counted and answered with total 3, running 1, completed 1, failed 1
C27_Witness ==
    /\ stats # Nil
    /\ stats.response =
          [total |-> 3, running |-> 1, completed |-> 1, failed |-> 1]
    /\ { workflowState[w].status : w \in DOMAIN workflowState }
          = {"RUNNING", "COMPLETED", "REJECTED"}

\* the positions of the logs of workflow id with this event type
LogsOf(id, eventType) ==
    { i \in 1..Len(contract.logs) :
        /\ contract.logs[i].workflowId = id
        /\ contract.logs[i].eventType = eventType }

\* what the emitted logs show of the order of a workflow's life: one
\* decision at most, no payment after a rejection or without an approval
\* before it, no completion without a payment before it
LifecycleInOrder ==
    \A id \in ContractIds :
        /\ Cardinality(LogsOf(id, "DECISION_RECORDED")) <= 1
        /\ \A p \in LogsOf(id, "PAYMENT_EXECUTED") :
              \E d \in LogsOf(id, "DECISION_RECORDED") :
                  d < p /\ contract.logs[d].args.approved
        /\ \A c \in LogsOf(id, "WORKFLOW_COMPLETED") :
              \E p \in LogsOf(id, "PAYMENT_EXECUTED") : p < c

\* C28: recordDecision succeeds exactly on an Active workflow and
\* completeWorkflow exactly on a Settled one; executePayment reaches its
\* transfer only on an Approved workflow with a value that is not zero; a
\* call that reverts leaves counter, workflows and logs as they were; and
\* the logs show every workflow decided at most once, paid only after its
\* approval and completed only after a payment.
C28_ContractEnforcesLifecycle ==
    [][contract' # contract =>
         LET id == contract'.last.workflowId
             fn == contract'.last.fn
             ok == contract'.last.ok
         IN  /\ Len(contract'.stack) > Len(contract.stack) =>
                   LET paid == contract'.stack[Len(contract'.stack)].workflowId
                   IN  /\ contract.workflows[paid].state = "Approved"
                       /\ contract'.workflows[paid].amount # 0
             /\ Len(contract'.stack) = Len(contract.stack) =>
                   /\ fn = "recordDecision" =>
                         (ok <=> contract.workflows[id].state = "Active")
                   /\ fn = "completeWorkflow" =>
                         (ok <=> contract.workflows[id].state = "Settled")
                   /\ fn = "executePayment" => ~ok
                   /\ ~ok => /\ contract'.workflows = contract.workflows
                             /\ contract'.logs = contract.logs
                             /\ contract'.workflowCounter = contract.workflowCounter
             /\ Len(contract'.stack) < Len(contract.stack) =>
                   LET frame == contract.stack[Len(contract.stack)]
                   IN  IF ok
                       THEN contract'.workflows[id].state = "Settled"
                       ELSE /\ contract'.workflows = frame.saved.workflows
                            /\ contract'.logs = frame.saved.logs
                            /\ contract'.workflowCounter = frame.saved.workflowCounter
             /\ contract'.logs # contract.logs => LifecycleInOrder']_vars

\* executePayment has just been refused on a rejected workflow, while
\* another workflow has been completed
C28_Witness ==
    /\ contract.last = [fn |-> "executePayment",
                        workflowId |-> contract.last.workflowId, ok |-> FALSE]
    /\ contract.stack = <<>>
    /\ contract.workflows[contract.last.workflowId].state = "Rejected"
    /\ \E id \in ContractIds : contract.workflows[id].state = "Completed"

\* a transfer has failed and its executePayment reverts
Rollback ==
    /\ Len(contract'.stack) < Len(contract.stack)
    /\ ~contract'.last.ok

\* C29: a workflow becomes Rejected only from Active, and the step appends
\* to the logs DecisionRecorded(approved = false) and then WorkflowFailed of
\* that workflow with the same reason; a Rejected workflow stays as it is in
\* every call (only the revert of a payment during whose transfer it was
\* rejected takes the rejection back with the rest of that call).
C29_RejectionEmitsAndIsFinal ==
    [][\A id \in ContractIds :
          /\ (/\ contract.workflows[id].state # "Rejected"
              /\ contract'.workflows[id].state = "Rejected")
                => /\ contract.workflows[id].state = "Active"
                   /\ \E r \in ContractReasons :
                         contract'.logs =
                            contract.logs \o
                              << [workflowId |-> id,
                                  eventType |-> "DECISION_RECORDED",
                                  args |-> [NoArgs EXCEPT !.approved = FALSE,
                                                          !.reason = r]],
                                 [workflowId |-> id,
                                  eventType |-> "WORKFLOW_FAILED",
                                  args |-> [NoArgs EXCEPT !.reason = r]] >>
          /\ (contract.workflows[id].state = "Rejected" /\ ~Rollback)
                => contract'.workflows[id] = contract.workflows[id]]_vars

\* a workflow has been rejected for the reason "limit", and a later
\* recordDecision on it has been refused
C29_Witness ==
    LET id == contract.last.workflowId
        n == Len(contract.logs)
    IN  /\ contract.last.fn = "recordDecision"
        /\ ~contract.last.ok
        /\ contract.workflows[id].state = "Rejected"
        /\ n >= 2
        /\ contract.logs[n].workflowId = id
        /\ contract.logs[n].eventType = "WORKFLOW_FAILED"
        /\ contract.logs[n].args.reason = "limit"
        /\ contract.logs[n - 1].eventType = "DECISION_RECORDED"

\* the workflow a step of the contract is about
Target ==
    IF Len(contract'.stack) > Len(contract.stack)
    THEN contract'.stack[Len(contract'.stack)].workflowId
    ELSE contract'.last.workflowId

\* C30: the id startWorkflow returns is the id of no workflow that exists
\* and of no log emitted so far, and a step about one workflow leaves every
\* other workflow as it was (the revert of a payment puts all workflows back
\* to what they were when that payment began).
C30_WorkflowsAreIsolated ==
    [][contract' # contract =>
         /\ contract'.workflowCounter > contract.workflowCounter =>
               /\ contract'.last.fn = "startWorkflow"
               /\ contract.workflows[Target].state = "None"
               /\ \A i \in 1..Len(contract.logs) :
                     contract.logs[i].workflowId # Target
         /\ ~Rollback =>
               \A v \in ContractIds \ {Target} :
                   contract'.workflows[v] = contract.workflows[v]
         /\ Rollback =>
               contract'.workflows =
                  contract.stack[Len(contract.stack)].saved.workflows]_vars

\* the same sender has started two workflows in one block; the first has
\* been rejected since, the second is still Active
C30_Witness ==
    /\ contract.workflows[Keccak("0xA", 1, 1000)].state = "Rejected"
    /\ contract.workflows[Keccak("0xA", 2, 1000)].state = "Active"
    /\ contract.last = [fn |-> "recordDecision",
                        workflowId |-> Keccak("0xA", 1, 1000), ok |-> TRUE]

\* the WorkflowState row of the log's workflow has the log folded into it:
\* it carries the position of this log or of a later one
Folded(l) ==
    LET row == workflowState[l.workflowId]
    IN  /\ row # Nil
        /\ \/ row.lastEventBlock > l.blockNumber
           \/ /\ row.lastEventBlock = l.blockNumber
              /\ row.lastEventLogIndex >= l.index

\* C31: in a running process whose calls all return, whose timer keeps
\* firing and in which at most MaxFailures RPC calls fail, every log of the
\* chain whose block has ConfirmationBlocks confirmations is eventually
\* stored in ChainEvent and folded into the WorkflowState row of its
\* workflow.
C31_ConfirmedLogsEventuallyStored ==
    \A l \in ChainLogs :
        (procPc = "running" /\ head >= l.blockNumber + ConfirmationBlocks)
            ~> (Stored(l) /\ Folded(l))

\* C32: when the rebuild loop of replayAllEvents comes to a workflow whose
\* stored events hold no WORKFLOW_STARTED, it writes a WorkflowState row for
\* it with no initiator and startedAt = the blockTimestamp of its first
\* event, and the replay goes on.
C32_WorkflowWithoutStartIsDerived ==
    [][procPc = "replayUpsert" =>
          LET w == Head(replay.groups)
              events == EventsOf(replay.events, w)
          IN  (\A i \in 1..Len(events) : events[i].eventType # "WORKFLOW_STARTED")
                  => /\ procPc' # "exited"
                     /\ workflowState'[w] # Nil
                     /\ workflowState'[w].initiator = NULL
                     /\ workflowState'[w].startedAt = events[1].blockTimestamp]_vars

\* the range of the cycle that has read the checkpoint is empty: its lower
\* bound is above the block number it read less ConfirmationBlocks
NothingConfirmed(c) ==
    (IF lastProcessedBlock # NULLINT THEN lastProcessedBlock ELSE BlockStart) + 1
        > cycles[c].latestBlock - ConfirmationBlocks

\* C33: a poll cycle that finds its lower bound lastProcessedBlock + 1 above
\* the head it read less ConfirmationBlocks returns at once: it sends no
\* getLogs, and the step leaves ChainEvent, WorkflowState and
\* lastProcessedBlock as they were; a cycle with any other range goes on to
\* its first getLogs.
C33_EmptyRangeIsSkipped ==
    [][\A c \in Slots :
          (/\ cycles[c].pc = "findSystemState"
           /\ cycles'[c].pc # "findSystemState"
           /\ restarts' = restarts)
              => IF NothingConfirmed(c)
                 THEN /\ cycles'[c] = IdleCycle
                      /\ chainEvent' = chainEvent
                      /\ workflowState' = workflowState
                      /\ lastProcessedBlock' = lastProcessedBlock
                 ELSE cycles'[c].pc = "getLogs"]_vars

\* a cycle is about to be skipped in a process that has stored events and
\* advanced its checkpoint to the last confirmed block
C33_Witness ==
    \E c \in Slots :
        /\ cycles[c].pc = "findSystemState"
        /\ NothingConfirmed(c)
        /\ cycles[c].latestBlock = head
        /\ lastProcessedBlock = head - ConfirmationBlocks
        /\ lastProcessedBlock > 0
        /\ chainEvent # <<>>

\* C34: the chunks of a poll cycle that queries the range
\* lastProcessedBlock + 1 .. head - ConfirmationBlocks begin at the lower
\* bound and end at the upper bound, each chunk begins one block after the
\* chunk before it ends, and no chunk is empty or longer than
\* MAX_BLOCK_RANGE blocks.
C34_ChunksPartitionRange ==
    \A c \in Slots :
        cycles[c].pc = "getLogs" =>
            LET chunks == cycles[c].chunks
                n == Len(chunks)
            IN  /\ n >= 1
                /\ chunks[1].from = lastProcessedBlock + 1
                /\ chunks[n].to = head - ConfirmationBlocks
                /\ \A i \in 1..(n - 1) : chunks[i + 1].from = chunks[i].to + 1
                /\ \A i \in 1..n :
                      /\ chunks[i].from <= chunks[i].to
                      /\ chunks[i].to - chunks[i].from + 1 <= 2000

\* a range has been cut into three chunks: the first of exactly 2000 blocks,
\* the last of one block
C34_Witness ==
    /\ cycles[1].pc = "getLogs"
    /\ Len(cycles[1].chunks) = 3
    /\ cycles[1].chunks[1].to - cycles[1].chunks[1].from = 1999
    /\ cycles[1].chunks[3].to = cycles[1].chunks[3].from

\* C35: no step takes the WorkflowState row of a workflow from COMPLETED,
\* FAILED or REJECTED to RUNNING.
C35_TerminalStatusIsFinal ==
    [][\A w \in Workflows :
          (/\ workflowState[w] # Nil
           /\ workflowState[w].status \in {"COMPLETED", "FAILED", "REJECTED"}
           /\ workflowState'[w] # Nil)
              => workflowState'[w].status # "RUNNING"]_vars

\* C36: a replayAllEvents call that throws, on the ordering check or on a
\* refused write of the rebuild, leaves WorkflowState as the call found it.
C36_FailedReplayKeepsState ==
    [][(procPc \in ReplayPcs /\ procPc' = "exited")
          => workflowState' = IF procPc = "replayFindMany" THEN workflowState
                              ELSE replay.before]_vars

\* the position in the applied sequence of the last event of a known type
LastKnown ==
    CHOOSE i \in 1..Len(chainEvent) :
        /\ chainEvent[i].eventType # "UNKNOWN"
        /\ \A j \in (i + 1)..Len(chainEvent) : chainEvent[j].eventType = "UNKNOWN"

\* C37: in the state folded from any sequence of events, a RUNNING state has
\* no completedAt, and a COMPLETED, FAILED or REJECTED state has the
\* blockTimestamp of the event that gave it this status as completedAt.
C37_CompletedAtOnlyWhenTerminal ==
    Reduced # Nil =>
        IF Reduced.status = "RUNNING"
        THEN Reduced.completedAt = NULLINT
        ELSE Reduced.completedAt = chainEvent[LastKnown].blockTimestamp

\* a step is a call of startEventListener
StartCalled == listener' # listener /\ listener'.called = "start"

\* C38: never more than one interval timer exists; a startEventListener
\* call made while listening sets no timer and starts no pollEvents call;
\* and while the listener is stopped no pollEvents call starts except the
\* first one of a new startEventListener call.
C38_AtMostOneTimer ==
    [][/\ listener'.timers <= 1
       /\ (StartCalled /\ isListening)
             => /\ listener'.warned
                /\ listener'.timers = listener.timers
                /\ pollingInterval' = pollingInterval
                /\ cycles' = cycles
       /\ (\E c \in Slots : cycles[c].pc = "idle" /\ cycles'[c].pc # "idle")
             => (isListening \/ StartCalled)]_vars

\* startEventListener has been called on a listener that was running, with
\* its timer set and a pollEvents call in flight, and has returned with the
\* warning
C38_Witness ==
    /\ listener = [timers |-> 1, called |-> "start", warned |-> TRUE]
    /\ isListening
    /\ pollingInterval
    /\ \E c \in Slots : cycles[c].pc = "getLogs"

\* the row is inside the bounds that the options give
InRange(options, row) ==
    /\ options.fromBlock = NULLINT \/ row.blockNumber >= options.fromBlock
    /\ options.toBlock = NULLINT \/ row.blockNumber <= options.toBlock

\* C39: the events a replayAllEvents call goes on to rebuild from are the
\* ChainEvent rows whose blockNumber is at or above options.fromBlock, when
\* given, and at or below options.toBlock, when given, in canonical order.
C39_ReplayOptionsBoundEvents ==
    [][(procPc = "replayFindMany" /\ procPc' = "replayDeleteMany")
          => replay'.events =
                OrderByCanonical({ r \in SeqToSet(chainEvent) :
                                     InRange(replay'.options, r) })]_vars

\* C40: in every answer of GET /stats, total = running + completed + failed,
\* also when the poller writes WorkflowState while the request is in
\* progress.
C40_StatsResponseAddsUp ==
    (stats # Nil /\ stats.response # Nil)
        => stats.response.total =
              stats.response.running + stats.response.completed
                  + stats.response.failed

====
